---- MODULE Spec2Model ----
(***************************************************************************)
(* CodeCompass: the per-repository index store (indexing/store.py), the    *)
(* retrieval strategies (retrieval/search.py) and the two strategy         *)
(* dispatch points (cli.py search, retrieval/rag.py answer_question).      *)
(*                                                                         *)
(* One repository.  Process "c" is a caller that runs operations one       *)
(* after the other (builds, searches, strategies, dispatch); process "r"   *)
(* is a second process that only reads (search, get_stats, is_indexed)     *)
(* and interleaves freely with "c".  The database engine and the model     *)
(* services are the environment: the engine lists a requested full-text    *)
(* index at some later time (or never), embed() and generate() may fail,   *)
(* and generate() otherwise returns some text.                             *)
(*                                                                         *)
(* Text is a sequence of tokens: a word, white space (Ws), a code fence     *)
(* of three backquotes (Fence), or the language tag "python".  A query is  *)
(* text spelled out character by character, a blank being Ws.              *)
(***************************************************************************)
EXTENDS Integers, Sequences, FiniteSets, TLC

\* ------------------------------------------------------------------ bounds
\* longest unit list handed to index_chunks by its caller
MaxUnits == 2
\* most source files in a repository
MaxFiles == 2
\* largest result limit asked for
MaxLimit == 1
\* longest retrieved list, longest expected list and largest cutoff k of a
\* metric call
MaxRetrieved == 3
MaxExpected == 2
MaxK == 3
\* the longest metrics list given to aggregate_metrics
MaxQueries == 2
\* the poll counter of wait_for_index saturates here (it never stops the loop)
MaxPolls == 1
\* strategy selectors tried are -1 .. MaxSelector
MaxSelector == 3

\* ------------------------------------------------------- program constants
\* wait_for_index(self, index_name, timeout: float = 5.0)
DefaultTimeout == 5

\* the name the engine gives the full-text index on column search_text
FtsIndexName == "search_text_idx"

Procs == {"c", "r"}

\* text tokens: a run of white space, and a code fence (three backquotes)
Ws == "<ws>"

Fence == "<fence>"

\* ------------------------------------------------------------------ inputs
\* Python's None, and None where a text is expected
None == "<None>"
NoText == <<None>>

\* An import statement as str.split() sees it: the keyword and the dotted
\* names that follow it.
ImpLancedb == [kw |-> "import", names |-> << <<"lancedb">> >>]
ImpTyper == [kw |-> "from", names |-> << <<"typer", "main">> >>]
\* import lancedb, sys
ImpLancedbSys == [kw |-> "import", names |-> << <<"lancedb">>, <<"sys">> >>]

\* CodeChunk objects handed to index_chunks: a function without a docstring
\* and a method with one
UnitPool ==
    { [id |-> <<"login", ".py", "::", "login">>, file_path |-> <<"login", ".py">>,
       name |-> "login", chunk_type |-> "function",
       code |-> <<"def login():", "return True">>, start_line |-> 2, end_line |-> 3,
       docstring |-> NoText, parent_class |-> None,
       imports |-> <<ImpLancedb>>],
      [id |-> <<"users", ".py", "::", "UserService", ".", "create_user">>,
       file_path |-> <<"users", ".py">>,
       name |-> "create_user", chunk_type |-> "method",
       code |-> <<"def create_user(self):", "doc", "return None">>,
       start_line |-> 4, end_line |-> 6,
       docstring |-> <<"Create", Ws, "user">>, parent_class |-> "UserService",
       imports |-> <<ImpTyper, ImpLancedbSys>>] }

SeqsUpTo(S, n) == UNION { [1..k -> S] : k \in 0..n }

\* what chunk_repository can hand to a build: any list, repeated ids included
UnitLists == SeqsUpTo(UnitPool, MaxUnits)

\* queries, character by character: "search", "login cli", "click", "CLI"
Queries ==
    { <<"s", "e", "a", "r", "c", "h">>,
      <<"l", "o", "g", "i", "n", Ws, "c", "l", "i">>,
      <<"c", "l", "i", "c", "k">>,
      <<"C", "L", "I">> }

\* what generate() may answer
GenTexts == { <<"vector">>, <<Ws, Fence, "python", Ws, "def", Fence, Ws>> }

Limits == 0..MaxLimit

Selectors == (-1)..MaxSelector

Timeouts == {0, DefaultTimeout}

Strategies == {"baseline", "hyde", "query_expansion", "query_expansion_context",
               "context_v1", "context_v2", "context_v3", "context_v4"}

Min(a, b) == IF a < b THEN a ELSE b

SeqToSet(s) == { s[k] : k \in 1..Len(s) }

\* ------------------------------------------------------------------- state
VARIABLES
    tbl,      \* the repository's database: the code_chunks table, if any
    meta,     \* metadata.json next to it, if any
    pc,       \* per process: where it is in its operation
    op,       \* per process: the operation it runs (outermost call)
    arg,      \* per process: that operation's arguments
    res,      \* per process: how its last operation ended
    cache,    \* per process: CodeStore._table is not None
    calls,    \* embed / generate / store.search calls of the caller's operation
    loc       \* locals of the caller's running operation

vars == <<tbl, meta, pc, op, arg, res, cache, calls, loc>>

NoTable == [exists |-> FALSE, rows |-> <<>>, indices |-> {}, pending |-> {}]

\* metadata.json: whether the file exists, whether its content has been
\* written, and the content
NoMeta == [exists |-> FALSE, written |-> FALSE, chunk_count |-> 0, imports |-> <<>>,
           build |-> 0]

NoArg == [units |-> <<>>, query |-> <<>>, limit |-> 0, stype |-> 0,
          root |-> <<>>, files |-> <<>>,
          retrieved |-> <<>>, expected |-> <<>>, k |-> 0,
          metrics_list |-> <<>>]

NoRes == [kind |-> "none", tag |-> "", n |-> 0, fts |-> FALSE, ratio |-> <<0, 1>>,
          value |-> <<>>]

NoCalls == [embed |-> 0, gen |-> 0, search |-> 0]

NoLoc == [i |-> 0, records |-> <<>>, build |-> 0, polls |-> 0, timeout |-> 0,
          strat |-> "none", sq |-> <<>>, imports |-> <<>>,
          filtered |-> <<>>, chunks |-> <<>>, generated |-> <<>>]

Returned(tag, n) == [NoRes EXCEPT !.kind = "return", !.tag = tag, !.n = n]

ReturnedList(n, fts) ==
    [NoRes EXCEPT !.kind = "return", !.tag = "list", !.n = n, !.fts = fts]

Raised(tag) == [NoRes EXCEPT !.kind = "raise", !.tag = tag]

Exited(tag) == [NoRes EXCEPT !.kind = "exit", !.tag = tag, !.n = 1]

\* CodeStore.__init__: no table handle yet; a fresh repository has neither a
\* table nor a metadata record.
Init ==
    /\ tbl = NoTable
    /\ meta = NoMeta
    /\ pc = [p \in Procs |-> "idle"]
    /\ op = [p \in Procs |-> "none"]
    /\ arg = [p \in Procs |-> NoArg]
    /\ res = [p \in Procs |-> NoRes]
    /\ cache = [p \in Procs |-> FALSE]
    /\ calls = NoCalls
    /\ loc = NoLoc

Free(p) == pc[p] \in {"idle", "done"}

\* a process is called with operation o and arguments a, and is at label l
Call(p, o, a, l) ==
    /\ Free(p)
    /\ pc' = [pc EXCEPT ![p] = l]
    /\ op' = [op EXCEPT ![p] = o]
    /\ arg' = [arg EXCEPT ![p] = a]
    /\ calls' = IF p = "c" THEN NoCalls ELSE calls

\* a process begins operation o with arguments a at label l, no result yet
Begin(p, o, a, l) ==
    /\ Call(p, o, a, l)
    /\ res' = [res EXCEPT ![p] = NoRes]

\* a process ends its operation with result r; the caller's locals go, but
\* for the strategy that ran and the number of the build
End(p, r) ==
    /\ pc' = [pc EXCEPT ![p] = "done"]
    /\ res' = [res EXCEPT ![p] = r]
    /\ loc' = IF p = "c"
              THEN [NoLoc EXCEPT !.strat = loc.strat, !.build = loc.build]
              ELSE loc

\* ------------------------------------------------- CodeStore: small pieces
\* a table property that looks at its cached handle only
TablePropertyCachedOnly(cached, db) ==
    [handle |-> cached, db |-> db]

\* a table property that creates the table it does not find
TablePropertyCreates(cached, db) ==
    [handle |-> TRUE,
     db |-> IF db.exists THEN db
            ELSE [exists |-> TRUE, rows |-> <<>>, indices |-> {}, pending |-> {}]]

\* CodeStore.table (property): the cached handle, else the table opened when
\* its name is among db.table_names(), else None.  It never creates a table.
TableProperty(cached, db) ==
    [handle |-> cached \/ db.exists, db |-> db]

\* a wait that returns at once, ready or not
WaitForIndexNoWait(indices, index_name, polls, timeout) == TRUE

\* a wait that treats timeout as a deadline: it also leaves the loop once
\* it has slept for timeout seconds in all
WaitForIndexDeadline(indices, index_name, polls, timeout) ==
    \/ \E index \in indices : index = index_name
    \/ polls * timeout >= timeout

\* wait_for_index: the loop's exit test,
\*   indices and any(index.name == index_name for index in indices)
\* polls and timeout are the loop's other state; the test does not read them.
WaitForIndexBreaks(indices, index_name, polls, timeout) ==
    \E index \in indices : index = index_name

\* an index_chunks without the early return
NotChunksUnchecked(chunks) == FALSE

\* index_chunks: "if not chunks: return 0"
NotChunks(chunks) == Len(chunks) = 0

\* the words of a list of texts, a separator between one text and the next
RECURSIVE JoinWith(_, _)
JoinWith(texts, sep) ==
    IF texts = <<>> THEN <<>>
    ELSE IF Len(texts) = 1 THEN Head(texts)
    ELSE Head(texts) \o <<sep>> \o JoinWith(Tail(texts), sep)

\* the text of an import statement: its keyword and its names
ImportText(imp) == <<imp.kw>> \o JoinWith(imp.names, ",")

\* _create_search_text: the words of the parts that are joined with newlines
CreateSearchText(chunk) ==
    <<"Name:", chunk.name, "Type:", chunk.chunk_type>>
    \o (IF chunk.parent_class \notin {None, ""}
        THEN <<"Class:", chunk.parent_class>> ELSE <<>>)
    \o (IF chunk.docstring \notin {NoText, <<>>}
        THEN <<"Description:">> \o chunk.docstring ELSE <<>>)
    \o (IF chunk.imports # <<>>
        THEN <<"File imports:">>
             \o JoinWith([j \in 1..Len(chunk.imports) |-> ImportText(chunk.imports[j])],
                         ", ")
        ELSE <<>>)
    \o <<"Code:">> \o chunk.code

\* embed(text): what the embedding service answers to the call-th call of an
\* operation; the vector is determined by the text sent and keeps less than
\* the text (here its second word and its length)
Embed(text, call) == [of |-> <<text[2], Len(text)>>, call |-> call]

\* records.append(...) at the front of the list
PrependRecord(records, record) == <<record>> \o records

\* records.append(...)
AppendRecord(records, record) == Append(records, record)

\* index_chunks: the record appended for a chunk
Record(chunk, search_text, vector) ==
    [id |-> chunk.id, search_text |-> search_text, vector |-> vector]

\* A row of the table: a record and the mark of the build that wrote it.
\* The mark is a bit; a build writes the bit that the rows it finds in the
\* table do not carry, so rows of consecutive builds are told apart.
Row(record, build) ==
    [id |-> record.id, search_text |-> record.search_text,
     vector |-> record.vector, build |-> build]

BuildMark(db) ==
    IF db.exists /\ db.rows # <<>> THEN 1 - db.rows[Len(db.rows)].build ELSE 0

\* a create_table that carries the replaced table's indices over
CreateTableKeepsIndices(db, records) ==
    [exists |-> TRUE,
     rows |-> [k \in 1..Len(records) |-> Row(records[k], BuildMark(db))],
     indices |-> db.indices, pending |-> {}]

\* a create_table that appends to the rows it finds (mode="append")
CreateTableAppends(db, records) ==
    [exists |-> TRUE,
     rows |-> db.rows \o [k \in 1..Len(records) |-> Row(records[k], BuildMark(db))],
     indices |-> {}, pending |-> {}]

\* db.create_table(name, records, mode="overwrite"): the new table holds the
\* records alone and has no index yet
CreateTable(db, records) ==
    [exists |-> TRUE,
     rows |-> [k \in 1..Len(records) |-> Row(records[k], BuildMark(db))],
     indices |-> {}, pending |-> {}]

\* index_chunks: "module = imp.split()[1].split('.')[0]" (and .split(',')[0])
ModuleOf(imp) == Head(Head(imp.names))

\* index_chunks: all_imports, the set built over every chunk's imports
AllImports(chunks) ==
    UNION { { ModuleOf(chunks[k].imports[j]) : j \in 1..Len(chunks[k].imports) } :
            k \in 1..Len(chunks) }

\* list(all_imports): the set's elements once each, in an order the set's
\* hashing decides
ListsOf(S) ==
    { s \in [1..Cardinality(S) -> S] : SeqToSet(s) = S }

\* _save_metadata: the record written to metadata.json
Metadata(chunk_count, imports, build) ==
    [exists |-> TRUE, written |-> TRUE, chunk_count |-> chunk_count,
     imports |-> imports, build |-> build]

\* write_text opens metadata.json for writing: the file exists and is empty
\* until the text is written
OpenedForWriting == [NoMeta EXCEPT !.exists = TRUE]

\* a get_stats that reports indexed whether the record is there or not
GetStatsAlwaysIndexed(m) ==
    [status |-> "indexed", chunk_count |-> m.chunk_count, imports |-> m.imports]

\* get_stats: {"status": "not_indexed"} when metadata.json is missing, else
\* {"status": "indexed", **json.loads(read_text())}; json.loads raises
\* JSONDecodeError on a file that is empty
GetStats(m) ==
    IF ~m.exists
    THEN [status |-> "not_indexed", chunk_count |-> 0, imports |-> <<>>]
    ELSE IF ~m.written
    THEN [status |-> "JSONDecodeError", chunk_count |-> 0, imports |-> <<>>]
    ELSE [status |-> "indexed", chunk_count |-> m.chunk_count, imports |-> m.imports]

\* how get_stats ends: it returns its dict, or the JSONDecodeError leaves it
GetStatsResult(stats) ==
    IF stats.status = "JSONDecodeError"
    THEN Raised("JSONDecodeError")
    ELSE Returned(stats.status, stats.chunk_count)

\* an is_indexed that always answers yes
IsIndexedAlways(handle) == TRUE

\* is_indexed: "return self.table is not None"
IsIndexed(handle) == handle

\* a search without the test for a missing table
SearchNeverEmpty(handle) == FALSE

\* search: "if self.table is None: return []"
SearchReturnsEmpty(handle) == ~handle

\* ------------------------------------------------------------------- text
RECURSIVE LStrip(_)
LStrip(s) == IF s # <<>> /\ Head(s) = Ws THEN LStrip(Tail(s)) ELSE s

RECURSIVE RStrip(_)
RStrip(s) ==
    IF s # <<>> /\ s[Len(s)] = Ws THEN RStrip(SubSeq(s, 1, Len(s) - 1)) ELSE s

\* str.strip()
Strip(s) == RStrip(LStrip(s))

\* str.startswith
StartsWith(s, tok) == s # <<>> /\ Head(s) = tok

\* the text before the first tok (all of it when there is none)
RECURSIVE Before(_, _)
Before(s, tok) ==
    IF s = <<>> \/ Head(s) = tok THEN <<>> ELSE <<Head(s)>> \o Before(Tail(s), tok)

\* the text after the first tok (nothing when there is none)
RECURSIVE After(_, _)
After(s, tok) ==
    IF s = <<>> THEN <<>> ELSE IF Head(s) = tok THEN Tail(s) ELSE After(Tail(s), tok)

\* s.split(tok)[1], for a text that holds tok
SplitSecond(s, tok) == Before(After(s, tok), tok)

\* s.replace(tok, "", 1)
ReplaceFirst(s, tok) ==
    IF \E k \in 1..Len(s) : s[k] = tok
    THEN Before(s, tok) \o After(s, tok)
    ELSE s

\* " ".join(words)
RECURSIVE Join(_)
Join(words) ==
    IF words = <<>> THEN <<>>
    ELSE IF Len(words) = 1 THEN <<Head(words)>>
    ELSE <<Head(words), Ws>> \o Join(Tail(words))

\* list[:n]; a negative n counts from the end
Take(s, n) ==
    IF n >= 0 THEN SubSeq(s, 1, Min(n, Len(s)))
    ELSE IF Len(s) + n > 0 THEN SubSeq(s, 1, Len(s) + n)
    ELSE <<>>

\* ------------------------------------------------------- chunking: sources
\* A source file is its lines and the syntax tree the parser makes of its
\* bytes.  A node has a type, the rows of its first and last line
\* (start_point[0], end_point[0]), its children in order, and for a leaf the
\* text of its bytes.  Bytes are taken by whole lines.
\* bytes that are not valid UTF-8
BadBytes == "<bad bytes>"

\* quote characters of a string literal
DQ == "<dq>"
SQ == "<sq>"

Node(type, start, end, children) ==
    [type |-> type, start |-> start, end |-> end, text |-> <<>>, children |-> children]

Leaf(type, row, text) ==
    [type |-> type, start |-> row, end |-> row, text |-> text, children |-> <<>>]

\* None where a node is expected
NoNode == Leaf("<None>", 0, <<>>)

Identifier(row, name) == Leaf("identifier", row, name)

Block(start, end, stmts) == Node("block", start, end, stmts)

\* def name(...): body
FunctionDef(start, end, name, body) ==
    Node("function_definition", start, end,
         <<Leaf("def", start, "def"), Identifier(start, name),
           Leaf("parameters", start, "()"), Leaf(":", start, ":"), body>>)

\* class name: body
ClassDef(start, end, name, body) ==
    Node("class_definition", start, end,
         <<Leaf("class", start, "class"), Identifier(start, name),
           Leaf(":", start, ":"), body>>)

\* @decorator on the line before the definition
Decorated(start, definition) ==
    Node("decorated_definition", start, definition.end,
         <<Leaf("decorator", start, "@"), definition>>)

\* a statement that is one string literal
StringStmt(row, literal) ==
    Node("expression_statement", row, row, <<Leaf("string", row, literal)>>)

ReturnStmt(row) == Node("return_statement", row, row, <<Leaf("return", row, "return")>>)

ImportStmt(row, imp) ==
    Leaf(IF imp.kw = "from" THEN "import_from_statement" ELSE "import_statement",
         row, imp)

Module(end, stmts) == Node("module", 0, end, stmts)

\* auth.py: a function with a docstring, a decorated class with one method
AuthPy ==
    [path |-> << <<"auth", ".py">> >>,
     lines |-> <<"import lancedb", "def login(user):", "doc", "return True",
                 "@cache", "class Session:", "def close(self):", "return None">>,
     tree |-> Module(7,
        <<ImportStmt(0, ImpLancedb),
          FunctionDef(1, 3, "login",
              Block(2, 3, <<StringStmt(2, <<DQ, DQ, DQ, "Authenticate", Ws, DQ, DQ, DQ>>),
                            ReturnStmt(3)>>)),
          Decorated(4,
              ClassDef(5, 7, "Session",
                  Block(6, 7, <<FunctionDef(6, 7, "close",
                                    Block(7, 7, <<ReturnStmt(7)>>))>>)))>>)]

\* models/shape.py: a class with a docstring, a property getter and setter
\* of the same name, a plain method
ShapePy ==
    [path |-> << <<"models">>, <<"shape", ".py">> >>,
     lines |-> <<"import lancedb, sys", "class Shape:", "doc", "@property",
                 "def area(self):", "doc", "return self._a", "@area.setter",
                 "def area(self, v):", "return None", "def scale(self, k):",
                 "return k">>,
     tree |-> Module(11,
        <<ImportStmt(0, ImpLancedbSys),
          ClassDef(1, 11, "Shape",
              Block(2, 11,
                <<StringStmt(2, <<DQ, DQ, DQ, "A", Ws, "shape", DQ, DQ, DQ>>),
                  Decorated(3, FunctionDef(4, 6, "area",
                      Block(5, 6, <<StringStmt(5, <<SQ, SQ, SQ, "The", Ws, "area", SQ, SQ, SQ>>),
                                    ReturnStmt(6)>>))),
                  Decorated(7, FunctionDef(8, 9, "area",
                      Block(9, 9, <<ReturnStmt(9)>>))),
                  FunctionDef(10, 11, "scale",
                      Block(11, 11, <<ReturnStmt(11)>>))>>))>>)]

\* compat.py: the same function defined in both branches of an if
CompatPy ==
    [path |-> << <<"compat", ".py">> >>,
     lines |-> <<"if PY3:", "def text(b):", "return b", "else:", "def text(b):",
                 "return None">>,
     tree |-> Module(5,
        <<Node("if_statement", 0, 5,
            <<Leaf("if", 0, "if"), Identifier(0, "PY3"), Leaf(":", 0, ":"),
              Block(1, 2, <<FunctionDef(1, 2, "text", Block(2, 2, <<ReturnStmt(2)>>))>>),
              Node("else_clause", 3, 5,
                <<Leaf("else", 3, "else"), Leaf(":", 3, ":"),
                  Block(4, 5, <<FunctionDef(4, 5, "text",
                                    Block(5, 5, <<ReturnStmt(5)>>))>>)>>)>>)>>)]

\* tree.py: a class nested in a class, each with one method
TreePy ==
    [path |-> << <<"tree", ".py">> >>,
     lines |-> <<"class Tree:", "class Node:", "def walk(self):", "return None",
                 "def root(self):", "return None">>,
     tree |-> Module(5,
        <<ClassDef(0, 5, "Tree",
              Block(1, 5,
                <<ClassDef(1, 3, "Node",
                      Block(2, 3, <<FunctionDef(2, 3, "walk",
                                        Block(3, 3, <<ReturnStmt(3)>>))>>)),
                  FunctionDef(4, 5, "root", Block(5, 5, <<ReturnStmt(5)>>))>>))>>)]

\* a compound statement that is not a definition: its keyword, then its blocks
\* and clauses
Compound(type, start, end, parts) ==
    Node(type, start, end, <<Leaf("keyword", start, type), Leaf(":", start, ":")>> \o parts)

\* hooks.py: definitions under an if in a class body, in the body of a
\* method, of a function and of a decorated function, and under a try at
\* module level
HooksPy ==
    [path |-> << <<"hooks", ".py">> >>,
     lines |-> <<"class Hooks:", "if DEBUG:", "def trace(self):", "return None",
                 "def run(self):", "def inner():", "return None", "class Local:",
                 "def m(self):", "return None", "return inner",
                 "def outer():", "if X:", "def deep():", "return 0", "return 0",
                 "@wrap", "def deco():", "def hidden():", "return 0", "return hidden",
                 "try:", "def guarded():", "return 0", "class Guard:",
                 "def check(self):", "return 0", "except:", "pass">>,
     tree |-> Module(28,
        <<ClassDef(0, 10, "Hooks",
              Block(1, 10,
                <<Compound("if_statement", 1, 3,
                    <<Block(2, 3, <<FunctionDef(2, 3, "trace",
                                        Block(3, 3, <<ReturnStmt(3)>>))>>)>>),
                  FunctionDef(4, 10, "run",
                      Block(5, 10,
                        <<FunctionDef(5, 6, "inner", Block(6, 6, <<ReturnStmt(6)>>)),
                          ClassDef(7, 9, "Local",
                              Block(8, 9, <<FunctionDef(8, 9, "m",
                                                Block(9, 9, <<ReturnStmt(9)>>))>>)),
                          ReturnStmt(10)>>))>>)),
          FunctionDef(11, 15, "outer",
              Block(12, 15,
                <<Compound("if_statement", 12, 14,
                    <<Block(13, 14, <<FunctionDef(13, 14, "deep",
                                          Block(14, 14, <<ReturnStmt(14)>>))>>)>>),
                  ReturnStmt(15)>>)),
          Decorated(16,
              FunctionDef(17, 20, "deco",
                  Block(18, 20,
                    <<FunctionDef(18, 19, "hidden", Block(19, 19, <<ReturnStmt(19)>>)),
                      ReturnStmt(20)>>))),
          Compound("try_statement", 21, 28,
            <<Block(22, 26,
                <<FunctionDef(22, 23, "guarded", Block(23, 23, <<ReturnStmt(23)>>)),
                  ClassDef(24, 26, "Guard",
                      Block(25, 26, <<FunctionDef(25, 26, "check",
                                          Block(26, 26, <<ReturnStmt(26)>>))>>))>>),
              Compound("except_clause", 27, 28,
                <<Block(28, 28, <<Leaf("pass_statement", 28, "pass")>>)>>)>>)>>)]

\* a file of one function at path p
OneFunction(p, name, line0, line2) ==
    [path |-> p,
     lines |-> <<line0, "def", line2>>,
     tree |-> Module(2,
        <<Leaf("comment", 0, line0),
          FunctionDef(1, 2, name, Block(2, 2, <<ReturnStmt(2)>>))>>)]

\* build/gen.py: under a directory named build
BuildGenPy == OneFunction(<< <<"build">>, <<"gen", ".py">> >>, "gen", "# made", "return 0")

\* src/builder.py: no ignored directory, but "build" inside the file name
BuilderPy == OneFunction(<< <<"src">>, <<"build", "er", ".py">> >>, "make", "# make", "return 0")

\* data/blob.py: bytes that are not UTF-8, in a comment outside every definition
BlobPy == OneFunction(<< <<"data">>, <<"blob", ".py">> >>, "blob", BadBytes, "return 0")

\* data/bad.py: bytes that are not UTF-8, inside the function
BadPy == OneFunction(<< <<"data">>, <<"bad", ".py">> >>, "bad", "# bad", BadBytes)

FilePool ==
    {AuthPy, ShapePy, CompatPy, TreePy, HooksPy, BuildGenPy, BuilderPy, BlobPy, BadPy}

\* repository roots: /home/proj and /home/scratch/proj
Roots == { << <<"home">>, <<"proj">> >>, << <<"home">>, <<"scratch">>, <<"proj">> >> }

\* what rglob("*.py") finds: distinct files, in the order the file system gives
FileLists ==
    { fs \in SeqsUpTo(FilePool, MaxFiles) :
        \A i, j \in 1..Len(fs) : i # j => fs[i] # fs[j] }

\* ------------------------------------------------------- chunking: chunker
\* str(path): the components' characters with "/" between the components
RECURSIVE PathStr(_)
PathStr(components) ==
    IF components = <<>> THEN <<>>
    ELSE IF Len(components) = 1 THEN Head(components)
    ELSE Head(components) \o <<"/">> \o PathStr(Tail(components))

\* source[start_byte:end_byte]: the lines of the rows start..end
Bytes(lines, start, end) == SubSeq(lines, start + 1, end + 1)

\* bytes.decode('utf-8') raises UnicodeDecodeError on bytes that are not UTF-8
DecodeRaises(bytes) == \E k \in 1..Len(bytes) : bytes[k] = BadBytes

\* _get_name: the text of the first identifier child, else "<unknown>"
RECURSIVE GetNameIn(_)
GetNameIn(children) ==
    IF children = <<>> THEN "<unknown>"
    ELSE IF Head(children).type = "identifier" THEN Head(children).text
    ELSE GetNameIn(Tail(children))

GetName(node) == GetNameIn(node.children)

\* _get_child_by_type: the first child of that type, else None (NoNode)
RECURSIVE ChildByTypeIn(_, _)
ChildByTypeIn(children, type_name) ==
    IF children = <<>> THEN NoNode
    ELSE IF Head(children).type = type_name THEN Head(children)
    ELSE ChildByTypeIn(Tail(children), type_name)

GetChildByType(node, type_name) == ChildByTypeIn(node.children, type_name)

\* str.strip(chars): leading and trailing characters of the set removed
RECURSIVE LStripChars(_, _)
LStripChars(s, chars) ==
    IF s # <<>> /\ Head(s) \in chars THEN LStripChars(Tail(s), chars) ELSE s

RECURSIVE RStripChars(_, _)
RStripChars(s, chars) ==
    IF s # <<>> /\ s[Len(s)] \in chars
    THEN RStripChars(SubSeq(s, 1, Len(s) - 1), chars)
    ELSE s

StripChars(s, chars) == RStripChars(LStripChars(s, chars), chars)

\* _extract_docstring(node, source): the block child of the node it is
\* given, the block's first statement, and when that is an expression
\* statement whose first child is a string, the string's text with double
\* quotes, then single quotes, then white space stripped from both ends
ExtractDocstring(node, lines) ==
    LET body == GetChildByType(node, "block")
    IN  IF body = NoNode \/ body.children = <<>> THEN NoText
        ELSE LET first_stmt == body.children[1]
             IN  IF first_stmt.type = "expression_statement"
                    /\ first_stmt.children # <<>>
                    /\ first_stmt.children[1].type = "string"
                 THEN Strip(StripChars(StripChars(first_stmt.children[1].text, {DQ}), {SQ}))
                 ELSE NoText

\* "if parent_class:"
Truthy(x) == x # None /\ x # ""

\* _make_chunk: chunk_id, f"{file_path}::{parent_class}.{name}" or
\* f"{file_path}::{name}"
ChunkId(file_path, parent_class, name) ==
    IF Truthy(parent_class)
    THEN file_path \o <<"::", parent_class, ".", name>>
    ELSE file_path \o <<"::", name>>

\* a chunk type that stays what the caller passed
ChunkTypeAsPassed(chunk_type, parent_class) == chunk_type

\* _make_chunk: chunk_type = "method" when parent_class is set
ChunkType(chunk_type, parent_class) ==
    IF Truthy(parent_class) THEN "method" ELSE chunk_type

\* a code node that is always the definition itself
CodeNodeInner(node, node_for_code) == node

\* _make_chunk: code_node = node_for_code or node
CodeNode(node, node_for_code) ==
    IF node_for_code # NoNode THEN node_for_code ELSE node

\* _make_chunk: the CodeChunk of a definition node, or the UnicodeDecodeError
\* of decoding its code
MakeChunk(node, lines, file_path, chunk_type, parent_class, node_for_code) ==
    LET name == GetName(node)
        code_node == CodeNode(node, node_for_code)
        code == Bytes(lines, code_node.start, code_node.end)
    IN  IF DecodeRaises(code) THEN [raised |-> TRUE, chunks |-> <<>>]
        ELSE [raised |-> FALSE,
              chunks |-> <<[id |-> ChunkId(file_path, parent_class, name),
                            file_path |-> file_path,
                            name |-> name,
                            chunk_type |-> ChunkType(chunk_type, parent_class),
                            code |-> code,
                            start_line |-> code_node.start + 1,
                            end_line |-> code_node.end + 1,
                            docstring |-> ExtractDocstring(code_node, lines),
                            parent_class |-> parent_class,
                            imports |-> None]>>]

\* a generator's output followed by another's: nothing follows a raise
Then(a, b) ==
    IF a.raised THEN a
    ELSE [raised |-> b.raised, chunks |-> a.chunks \o b.chunks]

Nothing == [raised |-> FALSE, chunks |-> <<>>]

RECURSIVE ExtractChunksIn(_, _, _, _)
RECURSIVE ExtractDecorated(_, _, _, _, _)

\* the function unit, then the units of the function's body
FunctionUnitAndBody(definition, lines, file_path, parent_class, node_for_code) ==
    LET body == GetChildByType(definition, "block")
    IN  Then(MakeChunk(definition, lines, file_path, "function", parent_class,
                       node_for_code),
             IF body # NoNode
             THEN ExtractChunksIn(body.children, lines, file_path, None)
             ELSE Nothing)

\* the function unit alone: the body of a function is not gone through
FunctionUnit(definition, lines, file_path, parent_class, node_for_code) ==
    MakeChunk(definition, lines, file_path, "function", parent_class, node_for_code)

\* a recursion that forgets the class it is in
CarriedParentDropped(parent_class) == None

\* the parent_class handed to the recursion into a node that is no definition
CarriedParent(parent_class) == parent_class

\* the units of the class body, and the class unit after them
ClassAfterBody(definition, lines, file_path, node_for_code) ==
    LET class_name == GetName(definition)
        class_body == GetChildByType(definition, "block")
    IN  Then(IF class_body # NoNode
             THEN ExtractChunksIn(class_body.children, lines, file_path, class_name)
             ELSE Nothing,
             MakeChunk(definition, lines, file_path, "class", None, node_for_code))

\* the class unit, then the units of the class body with parent_class set
\* to the class name
ClassAndBody(definition, lines, file_path, node_for_code) ==
    LET class_name == GetName(definition)
        class_body == GetChildByType(definition, "block")
    IN  Then(MakeChunk(definition, lines, file_path, "class", None, node_for_code),
             IF class_body # NoNode
             THEN ExtractChunksIn(class_body.children, lines, file_path, class_name)
             ELSE Nothing)

\* _extract_chunks, "for subchild in child.children" of a decorated definition
ExtractDecorated(subchildren, child, lines, file_path, parent_class) ==
    IF subchildren = <<>> THEN Nothing
    ELSE LET subchild == Head(subchildren)
             this == CASE subchild.type = "function_definition" ->
                            FunctionUnit(subchild, lines, file_path, parent_class, child)
                       [] subchild.type = "class_definition" ->
                            ClassAndBody(subchild, lines, file_path, child)
                       [] OTHER -> Nothing
         IN  Then(this, ExtractDecorated(Tail(subchildren), child, lines, file_path,
                                         parent_class))

\* _extract_chunks, "for child in node.children"
ExtractChunksIn(children, lines, file_path, parent_class) ==
    IF children = <<>> THEN Nothing
    ELSE LET child == Head(children)
             this == CASE child.type = "decorated_definition" ->
                            ExtractDecorated(child.children, child, lines, file_path,
                                             parent_class)
                       [] child.type = "function_definition" ->
                            FunctionUnit(child, lines, file_path, parent_class, NoNode)
                       [] child.type = "class_definition" ->
                            ClassAndBody(child, lines, file_path, NoNode)
                       [] OTHER ->
                            ExtractChunksIn(child.children, lines, file_path,
                                            CarriedParent(parent_class))
         IN  Then(this, ExtractChunksIn(Tail(children), lines, file_path, parent_class))

ExtractChunks(node, lines, file_path, parent_class) ==
    ExtractChunksIn(node.children, lines, file_path, parent_class)

\* _extract_imports: the text of the module's import statements, in order,
\* or the UnicodeDecodeError of decoding one
RECURSIVE ExtractImportsIn(_, _)
ExtractImportsIn(children, lines) ==
    IF children = <<>> THEN Nothing
    ELSE LET child == Head(children)
         IN  IF child.type \in {"import_statement", "import_from_statement"}
             THEN Then(IF DecodeRaises(Bytes(lines, child.start, child.end))
                       THEN [raised |-> TRUE, chunks |-> <<>>]
                       ELSE [raised |-> FALSE, chunks |-> <<child.text>>],
                       ExtractImportsIn(Tail(children), lines))
             ELSE ExtractImportsIn(Tail(children), lines)

ExtractImports(node, lines) == ExtractImportsIn(node.children, lines)

\* chunk_file(file_path, repo_root): read_bytes() (which decodes nothing and
\* so never raises UnicodeDecodeError), parse, the imports, then every chunk
\* with the file's imports attached
ChunkFile(file, repo_root) ==
    LET relative_path == PathStr(file.path)
        imports == ExtractImports(file.tree, file.lines)
        found == ExtractChunks(file.tree, file.lines, relative_path, None)
    IN  IF imports.raised THEN [raised |-> TRUE, chunks |-> <<>>]
        ELSE [raised |-> found.raised,
              chunks |-> [k \in 1..Len(found.chunks) |->
                            [found.chunks[k] EXCEPT !.imports = imports.chunks]]]

\* ---------------------------------------------------- chunking: repository
\* chunk_repository: ignore_patterns, as characters
IgnorePatterns ==
    { <<"venv">>, <<".", "venv">>, <<"node_modules">>, <<"__pycache__">>,
      <<".", "git">>, <<"build">>, <<"dist">>, <<".", "eggs">>, <<"egg-info">>,
      <<"scratch">>, <<"scripts">>, <<"evaluation">> }

\* "pattern in str(f)": the pattern occurs somewhere in the string
Contains(s, pattern) ==
    \E k \in 0..(Len(s) - Len(pattern)) : SubSeq(s, k + 1, k + Len(pattern)) = pattern

\* str(f) for a file found under repo_path: the absolute path
FileStr(repo_path, file) == <<"/">> \o PathStr(repo_path \o file.path)

\* "not any(pattern in str(f) for pattern in ignore_patterns)"
Kept(repo_path, file) ==
    ~\E pattern \in IgnorePatterns : Contains(FileStr(repo_path, file), pattern)

\* filtered_files: the files found that are kept, in the order found
RECURSIVE FilteredFiles(_, _)
FilteredFiles(repo_path, files) ==
    IF files = <<>> THEN <<>>
    ELSE (IF Kept(repo_path, Head(files)) THEN <<Head(files)>> ELSE <<>>)
         \o FilteredFiles(repo_path, Tail(files))

\* "for file_path in filtered_files: yield from chunk_file(...)", drained by
\* list(): the chunks of the files in order, or the error of the first file
\* that raises
RECURSIVE ChunkFiles(_, _)
ChunkFiles(filtered, repo_path) ==
    IF filtered = <<>> THEN Nothing
    ELSE Then(ChunkFile(Head(filtered), repo_path), ChunkFiles(Tail(filtered), repo_path))

\* list(chunk_repository(repo_path)) on a repository holding these files
ChunkRepository(repo_path, files) ==
    ChunkFiles(FilteredFiles(repo_path, files), repo_path)

\* the repository that is indexed, /home/proj, and what index_repository
\* finds under it: nothing, auth.py, data/bad.py, or both in either order
IndexedRoot == << <<"home">>, <<"proj">> >>

IndexedFileLists ==
    { fs \in FileLists : \A k \in 1..Len(fs) : fs[k] \in {AuthPy, BadPy} }

\* list(chunk_repository(repo_path)) on a repository holding these files
StartChunkRepository(repo_path, files) ==
    /\ Begin("c", "chunk_repository",
             [NoArg EXCEPT !.root = repo_path, !.files = files], "cr_filter")
    /\ loc' = NoLoc
    /\ UNCHANGED <<tbl, meta, cache>>

\* chunk_repository: filtered_files = [f for f in repo_path.rglob("*.py") if ...]
ChunkRepositoryFilter ==
    /\ pc["c"] = "cr_filter"
    /\ loc' = [loc EXCEPT !.filtered = FilteredFiles(arg["c"].root, arg["c"].files),
                          !.i = 1]
    /\ pc' = [pc EXCEPT !["c"] = "cr_file"]
    /\ UNCHANGED <<tbl, meta, op, arg, res, cache, calls>>

\* chunk_repository: "for file_path in filtered_files: yield from
\* chunker.chunk_file(file_path, repo_path)"; an error raised in chunk_file
\* leaves the generator and the list() that drains it
ChunkRepositoryFile ==
    /\ pc["c"] = "cr_file"
    /\ IF loc.i > Len(loc.filtered)
       THEN /\ pc' = [pc EXCEPT !["c"] = "done"]
            /\ res' = [res EXCEPT !["c"] = Returned("chunks", Len(loc.chunks))]
            /\ UNCHANGED loc
       ELSE LET r == ChunkFile(loc.filtered[loc.i], arg["c"].root)
            IN  IF r.raised
                THEN /\ pc' = [pc EXCEPT !["c"] = "done"]
                     /\ res' = [res EXCEPT !["c"] = Raised("UnicodeDecodeError")]
                     /\ loc' = [loc EXCEPT !.chunks = @ \o r.chunks]
                ELSE /\ loc' = [loc EXCEPT !.chunks = @ \o r.chunks, !.i = @ + 1]
                     /\ UNCHANGED <<pc, res>>
    /\ UNCHANGED <<tbl, meta, op, arg, cache, calls>>

\* Chunking alone: the caller chunks one repository after another.
NextChunk ==
    \/ \E repo_path \in Roots, files \in FileLists : StartChunkRepository(repo_path, files)
    \/ ChunkRepositoryFilter
    \/ ChunkRepositoryFile

SpecChunk == Init /\ [][NextChunk]_vars

\* ---------------------------------------------------------------- building
\* index_repository(repo_path) on a repository holding these files
StartIndexRepository(repo_path, files) ==
    /\ Begin("c", "index_repository",
             [NoArg EXCEPT !.root = repo_path, !.files = files], "ir_chunk")
    /\ loc' = NoLoc
    /\ UNCHANGED <<tbl, meta, cache>>

\* index_repository: chunks = list(chunk_repository(repo_path)), whose error
\* is caught nowhere; "if not chunks: return 0"; else
\* store = CodeStore(repo_path) and store.index_chunks(chunks)
IndexRepositoryChunked ==
    /\ pc["c"] = "ir_chunk"
    /\ LET chunked == ChunkRepository(arg["c"].root, arg["c"].files)
       IN  IF chunked.raised
           THEN /\ End("c", Raised("UnicodeDecodeError"))
                /\ UNCHANGED <<arg, cache>>
           ELSE IF Len(chunked.chunks) = 0
           THEN /\ End("c", Returned("count", 0))
                /\ UNCHANGED <<arg, cache>>
           ELSE /\ pc' = [pc EXCEPT !["c"] = "ic_entry"]
                /\ arg' = [arg EXCEPT !["c"].units = chunked.chunks]
                /\ cache' = [cache EXCEPT !["c"] = FALSE]
                /\ UNCHANGED <<res, loc>>
    /\ UNCHANGED <<tbl, meta, op, calls>>

\* CodeStore.index_chunks(chunks) called on the caller's store
StartIndexChunks(units) ==
    /\ Begin("c", "index_chunks", [NoArg EXCEPT !.units = units], "ic_entry")
    /\ loc' = NoLoc
    /\ UNCHANGED <<tbl, meta, cache>>

\* index_chunks: "if not chunks: return 0"; else records = [] and the loop begins
IndexChunksEntry ==
    /\ pc["c"] = "ic_entry"
    /\ IF NotChunks(arg["c"].units)
       THEN End("c", Returned("count", 0))
       ELSE /\ pc' = [pc EXCEPT !["c"] = "embed"]
            /\ loc' = [loc EXCEPT !.i = 1, !.records = <<>>]
            /\ UNCHANGED res
    /\ UNCHANGED <<tbl, meta, op, arg, cache, calls>>

\* a failed embed() answered by returning 0
EmbedFailedSilently == Returned("count", 0)

\* what a failed embed() does to index_chunks: the exception, caught nowhere,
\* leaves it
EmbedFailed == Raised("EmbedError")

\* index_chunks: one turn of "for chunk in chunks": embed(search_text), then
\* records.append(...); a failing embed() raises out of index_chunks.  After
\* the last chunk the loop is left.
EmbedChunk ==
    /\ pc["c"] = "embed"
    /\ IF loc.i > Len(arg["c"].units)
       THEN /\ pc' = [pc EXCEPT !["c"] = "create_table"]
            /\ UNCHANGED <<res, calls, loc>>
       ELSE /\ calls' = [calls EXCEPT !.embed = @ + 1]
            /\ \E ok \in BOOLEAN :
                 IF ok
                 THEN /\ LET chunk == arg["c"].units[loc.i]
                              search_text == CreateSearchText(chunk)
                              vector == Embed(search_text, calls.embed + 1)
                          IN  loc' = [loc EXCEPT
                                        !.i = @ + 1,
                                        !.records = AppendRecord(@,
                                            Record(chunk, search_text, vector))]
                      /\ UNCHANGED <<pc, res>>
                 ELSE End("c", EmbedFailed)
    /\ UNCHANGED <<tbl, meta, op, arg, cache>>

\* index_chunks: self._table = self.db.create_table(name, records, mode="overwrite")
CreateTableStep ==
    /\ pc["c"] = "create_table"
    /\ tbl' = CreateTable(tbl, loc.records)
    /\ cache' = [cache EXCEPT !["c"] = TRUE]
    /\ loc' = [loc EXCEPT !.build = BuildMark(tbl)]
    /\ pc' = [pc EXCEPT !["c"] = "create_fts"]
    /\ UNCHANGED <<meta, op, arg, res, calls>>

\* index_chunks: self.table.create_fts_index("search_text") asks the engine
\* for the index and returns at once; then wait_for_index is entered.
\* index_chunks passes no timeout (the default); the parameter is left free
\* here, over Timeouts.
CreateFtsIndex ==
    /\ pc["c"] = "create_fts"
    /\ tbl' = [tbl EXCEPT !.pending = @ \cup {FtsIndexName}]
    /\ \E t \in Timeouts : loc' = [loc EXCEPT !.timeout = t, !.polls = 0]
    /\ pc' = [pc EXCEPT !["c"] = "wait"]
    /\ UNCHANGED <<meta, op, arg, res, cache, calls>>

\* the engine finishes building the requested index and lists it (when it
\* does so, and whether it ever does, is the engine's business)
EngineListsIndex ==
    /\ tbl.exists
    /\ tbl.pending # {}
    /\ tbl' = [tbl EXCEPT !.indices = @ \cup tbl.pending, !.pending = {}]
    /\ UNCHANGED <<meta, pc, op, arg, res, cache, calls, loc>>

\* wait_for_index: one turn of "while True": list the indices; break when
\* the name is listed, else time.sleep(timeout) and go round again
WaitForIndex ==
    /\ pc["c"] = "wait"
    /\ IF WaitForIndexBreaks(tbl.indices, FtsIndexName, loc.polls, loc.timeout)
       THEN /\ pc' = [pc EXCEPT !["c"] = "save_meta"]
            /\ UNCHANGED loc
       ELSE /\ loc' = [loc EXCEPT !.polls = Min(@ + 1, MaxPolls)]
            /\ UNCHANGED pc
    /\ UNCHANGED <<tbl, meta, op, arg, res, cache, calls>>

\* index_chunks: collect all_imports, then
\* self._save_metadata(len(records), list(all_imports)), whose write_text
\* first opens metadata.json for writing: the file is created or emptied
SaveMetadata ==
    /\ pc["c"] = "save_meta"
    /\ meta' = OpenedForWriting
    /\ pc' = [pc EXCEPT !["c"] = "write_meta"]
    /\ UNCHANGED <<tbl, op, arg, res, cache, calls, loc>>

\* _save_metadata: write_text writes the record into the opened file
WriteText ==
    /\ pc["c"] = "write_meta"
    /\ \E imports \in ListsOf(AllImports(arg["c"].units)) :
         meta' = Metadata(Len(loc.records), imports, loc.build)
    /\ pc' = [pc EXCEPT !["c"] = "ic_ret"]
    /\ UNCHANGED <<tbl, op, arg, res, cache, calls, loc>>

\* index_chunks: "return len(records)" (index_repository returns that count)
IndexChunksReturn ==
    /\ pc["c"] = "ic_ret"
    /\ End("c", Returned("count", Len(loc.records)))
    /\ UNCHANGED <<tbl, meta, op, arg, cache, calls>>

Build ==
    \/ \E files \in IndexedFileLists : StartIndexRepository(IndexedRoot, files)
    \/ IndexRepositoryChunked
    \/ \E units \in UnitLists : StartIndexChunks(units)
    \/ IndexChunksEntry
    \/ EmbedChunk
    \/ CreateTableStep
    \/ CreateFtsIndex
    \/ EngineListsIndex
    \/ WaitForIndex
    \/ SaveMetadata
    \/ WriteText
    \/ IndexChunksReturn

\* --------------------------------------------------------------- searching
\* hyde_search: the generated text stripped; when it starts with a fence,
\* the piece after that fence, less its first "python", stripped again
HydeQuery(generated) ==
    LET hypothetical == Strip(generated)
    IN  IF StartsWith(hypothetical, Fence)
        THEN Strip(ReplaceFirst(SplitSecond(hypothetical, Fence), "python"))
        ELSE hypothetical

\* the upper-case letters and their lower-case forms
UpperCase == <<"A", "B", "C", "D", "E", "F", "G", "H", "I", "J", "K", "L", "M",
               "N", "O", "P", "Q", "R", "S", "T", "U", "V", "W", "X", "Y", "Z">>
LowerCase == <<"a", "b", "c", "d", "e", "f", "g", "h", "i", "j", "k", "l", "m",
               "n", "o", "p", "q", "r", "s", "t", "u", "v", "w", "x", "y", "z">>

\* str.lower(): every upper-case letter replaced by its lower-case form
Lower(s) ==
    [k \in 1..Len(s) |->
        IF \E n \in 1..Len(UpperCase) : UpperCase[n] = s[k]
        THEN LowerCase[CHOOSE n \in 1..Len(UpperCase) : UpperCase[n] = s[k]]
        ELSE s[k]]

\* query_expansion_context_v4: associations, in the dict's order; a keyword
\* is spelled out in characters
Associations ==
    << [keyword |-> <<"e", "m", "b", "e", "d">>,
        related |-> <<"ollama", "sentence_transformers", "nomic">>],
       [keyword |-> <<"c", "h", "u", "n", "k">>,
        related |-> <<"tree_sitter", "ast">>],
       [keyword |-> <<"v", "e", "c", "t", "o", "r">>,
        related |-> <<"lancedb", "chromadb", "faiss">>],
       [keyword |-> <<"s", "e", "a", "r", "c", "h">>,
        related |-> <<"lancedb", "vector">>],
       [keyword |-> <<"c", "l", "i">>,
        related |-> <<"typer", "click", "argparse">>],
       [keyword |-> <<"c", "o", "m", "m", "a", "n", "d">>,
        related |-> <<"typer", "click">>],
       [keyword |-> <<"p", "a", "r", "s", "e">>,
        related |-> <<"tree_sitter", "ast">>],
       [keyword |-> <<"l", "l", "m">>,
        related |-> <<"ollama", "openai", "anthropic">>],
       [keyword |-> <<"g", "e", "n", "e", "r", "a", "t", "e">>,
        related |-> <<"ollama", "openai">>],
       [keyword |-> <<"s", "t", "o", "r", "e">>,
        related |-> <<"lancedb", "database">>],
       [keyword |-> <<"i", "n", "d", "e", "x">>,
        related |-> <<"lancedb", "vector">>],
       [keyword |-> <<"r", "a", "g">>,
        related |-> <<"lancedb", "ollama", "retrieval">>] >>

\* v4: "if term in imports and term not in matched: matched.append(term)"
\* over the related terms of one keyword
RECURSIVE MatchTerms(_, _, _)
MatchTerms(related, imports, matched) ==
    IF related = <<>> THEN matched
    ELSE MatchTerms(Tail(related), imports,
                    IF Head(related) \in SeqToSet(imports)
                       /\ Head(related) \notin SeqToSet(matched)
                    THEN Append(matched, Head(related))
                    ELSE matched)

\* v4: query_lower = query.lower(), then "for keyword, related in
\* associations.items(): if keyword in query_lower": the keyword's characters
\* occur somewhere in the lower-cased query
RECURSIVE Matched(_, _, _, _)
Matched(assocs, query, imports, matched) ==
    IF assocs = <<>> THEN matched
    ELSE Matched(Tail(assocs), query, imports,
                 IF Contains(Lower(query), Head(assocs).keyword)
                 THEN MatchTerms(Head(assocs).related, imports, matched)
                 ELSE matched)

\* the imports a context-aware strategy reads from get_stats():
\* stats.get("imports", [])[:100], [:15], [:20], [:100], and all of them (v4)
StrategyImports(strat, stats) ==
    CASE strat = "query_expansion_context" -> Take(stats.imports, 100)
      [] strat = "context_v1" -> Take(stats.imports, 15)
      [] strat = "context_v2" -> Take(stats.imports, 20)
      [] strat = "context_v3" -> Take(stats.imports, 100)
      [] strat = "context_v4" -> stats.imports
      [] OTHER -> <<>>

ContextStrategies == {"query_expansion_context", "context_v1", "context_v2",
                      "context_v3", "context_v4"}

\* no strategy asks generate() for text
GeneratingStrategiesNone == {}

\* strategies that ask generate() for text
GeneratingStrategies == Strategies \ {"baseline", "context_v4"}

\* the string a strategy hands to search_code, given what generate() answered
SearchString(strat, query, generated) ==
    CASE strat = "hyde" -> HydeQuery(generated)
      [] strat \in {"query_expansion", "query_expansion_context"} -> generated
      [] strat \in {"context_v1", "context_v2", "context_v3"} ->
            query \o <<Ws>> \o Strip(generated)
      [] OTHER -> query

\* v4: expanded = f"{query} {' '.join(matched[:5])}"
SearchStringV4(query, imports) ==
    query \o <<Ws>> \o Join(Take(Matched(Associations, query, imports, <<>>), 5))

\* cli.py search: strategies = {0: hyde_search, 1: baseline_search,
\* 2: query_expansion_search}; rag.py: SEARCH_STRATEGIES, the same mapping
SEARCH_STRATEGIES == (0 :> "hyde") @@ (1 :> "baseline") @@ (2 :> "query_expansion")

\* cli.py search: "if search_type not in strategies" is an explicit rejection
CliRejects(search_type) == search_type \notin DOMAIN SEARCH_STRATEGIES

\* rag.py answer_question: SEARCH_STRATEGIES.get(search_type, hyde_search)
SearchStrategiesGet(search_type) ==
    IF search_type \in DOMAIN SEARCH_STRATEGIES
    THEN SEARCH_STRATEGIES[search_type]
    ELSE "hyde"

\* an answer_question that goes on with an empty result list
NotResultsUnchecked(r) == FALSE

\* answer_question: "if not results"
NotResults(r) == r.n = 0

\* What happens to the outcome r of store.search / search_code in process p:
\* CodeStore.search and a strategy hand it to their caller; cli search prints;
\* answer_question returns its fixed message on no result and goes on to
\* generate() otherwise.  cli search wraps the strategy call in
\* "except ValueError", which catches by class: the ValueError of
\* search_code and a JSONDecodeError (a subclass) are printed and become
\* exit 1, an AttributeError leaves the command, and a failure of generate(),
\* of embed() or of the engine, whose class is the library's choice, does
\* either.
Finish(p, r) ==
    CASE op[p] = "cli_search" ->
            IF r.kind = "raise"
            THEN \/ /\ r.tag \in {"ValueError", "JSONDecodeError",
                                  "GenerateError", "EmbedError", "EngineError"}
                    /\ End(p, Exited(r.tag))
                 \/ /\ r.tag \notin {"ValueError", "JSONDecodeError"}
                    /\ End(p, r)
            ELSE End(p, Returned(IF r.n = 0 THEN "no_results_found" ELSE "results_printed",
                                 r.n))
      [] op[p] = "answer_question" ->
            IF r.kind = "raise" THEN End(p, r)
            ELSE IF NotResults(r) THEN End(p, Returned("no_relevant_code", 0))
            ELSE /\ pc' = [pc EXCEPT ![p] = "aq_generate"]
                 /\ res' = [res EXCEPT ![p] = r]
                 /\ UNCHANGED loc
      [] OTHER -> End(p, r)

\* CodeStore.search(query, limit) called on the process's store.  The query
\* goes to embed() and to the engine only, and they answer as they please:
\* the later steps read the limit alone.
StartSearch(p, query, limit) ==
    /\ query \in Queries
    /\ Begin(p, "search", [NoArg EXCEPT !.limit = limit], "s_table")
    /\ loc' = IF p = "c" THEN NoLoc ELSE loc
    /\ UNCHANGED <<tbl, meta, cache>>

\* search: "if self.table is None: return []"; else query_vector =
\* embed(query), and a failing embed() raises out of search
SearchTable(p) ==
    /\ pc[p] = "s_table"
    /\ LET t == TableProperty(cache[p], tbl)
       IN  /\ tbl' = t.db
           /\ cache' = [cache EXCEPT ![p] = t.handle]
           /\ IF SearchReturnsEmpty(t.handle)
              THEN /\ Finish(p, ReturnedList(0, FALSE))
                   /\ calls' = IF p = "c" THEN [calls EXCEPT !.search = @ + 1] ELSE calls
              ELSE /\ calls' = IF p = "c"
                               THEN [calls EXCEPT !.search = @ + 1, !.embed = @ + 1]
                               ELSE calls
                   /\ \E ok \in BOOLEAN :
                        IF ok
                        THEN /\ pc' = [pc EXCEPT ![p] = "s_query"]
                             /\ UNCHANGED <<res, loc>>
                        ELSE Finish(p, Raised("EmbedError"))
    /\ UNCHANGED <<meta, op, arg>>

\* search: the hybrid query, .limit(limit).to_list(): at most limit rows of the
\* table as it is now.  The result records whether the full-text index was
\* listed when the query ran; without it the engine answers or raises.
SearchQuery(p) ==
    /\ pc[p] = "s_query"
    /\ IF ~tbl.exists
       THEN Finish(p, Raised("AttributeError"))
       ELSE LET ready == FtsIndexName \in tbl.indices
            IN  \/ \E n \in 0..Min(arg[p].limit, Len(tbl.rows)) :
                     Finish(p, ReturnedList(n, ready))
                \/ /\ ~ready
                   /\ Finish(p, Raised("EngineError"))
    /\ UNCHANGED <<tbl, meta, op, arg, cache, calls>>

\* a retrieval strategy called with (repo_path, query, limit)
StartStrategy(strat, query, limit) ==
    /\ Begin("c", "strategy", [NoArg EXCEPT !.query = query, !.limit = limit], "st_begin")
    /\ loc' = [NoLoc EXCEPT !.strat = strat]
    /\ UNCHANGED <<tbl, meta, cache>>

\* the strategy's first lines: baseline goes straight to search_code; the
\* context-aware ones build a CodeStore and read get_stats() (v4 then
\* computes its expansion without generate()); the others go on to generate()
StrategyBegin ==
    /\ pc["c"] = "st_begin"
    /\ LET strat == loc.strat
           stats == GetStats(meta)
           imports == StrategyImports(strat, stats)
       IN  /\ cache' = IF strat \in ContextStrategies
                       THEN [cache EXCEPT !["c"] = FALSE]
                       ELSE cache
           /\ IF strat \in ContextStrategies /\ stats.status = "JSONDecodeError"
              THEN Finish("c", GetStatsResult(stats))
              ELSE /\ loc' = [loc EXCEPT
                                !.imports = imports,
                                !.sq = CASE strat = "baseline" -> arg["c"].query
                                         [] strat = "context_v4" ->
                                                SearchStringV4(arg["c"].query, imports)
                                         [] OTHER -> <<>>]
                   /\ pc' = [pc EXCEPT !["c"] = IF strat \in GeneratingStrategies
                                                THEN "st_generate"
                                                ELSE "sc_check"]
                   /\ UNCHANGED res
    /\ UNCHANGED <<tbl, meta, op, arg, calls>>

\* what a failed generate() does to its caller: the exception of
\* ollama.chat, caught nowhere, leaves it
GenerateFailed == Raised("GenerateError")

\* the strategy's generate(prompt) and the string it makes of the answer; a
\* failing generate() raises out of the strategy, before search_code
StrategyGenerate ==
    /\ pc["c"] = "st_generate"
    /\ calls' = [calls EXCEPT !.gen = @ + 1]
    /\ \/ /\ \E generated \in GenTexts :
                loc' = [loc EXCEPT
                          !.sq = SearchString(loc.strat, arg["c"].query, generated)]
          /\ pc' = [pc EXCEPT !["c"] = "sc_check"]
          /\ UNCHANGED res
       \/ Finish("c", GenerateFailed)
    /\ UNCHANGED <<tbl, meta, op, arg, cache>>

\* search_code: store = CodeStore(repo_path); "if not store.is_indexed():
\* raise ValueError"; else store.search(query, limit=limit)
SearchCodeCheck ==
    /\ pc["c"] = "sc_check"
    /\ LET t == TableProperty(FALSE, tbl)
       IN  /\ tbl' = t.db
           /\ cache' = [cache EXCEPT !["c"] = t.handle]
           /\ IF ~IsIndexed(t.handle)
              THEN Finish("c", Raised("ValueError"))
              ELSE /\ pc' = [pc EXCEPT !["c"] = "s_table"]
                   /\ UNCHANGED <<res, loc>>
    /\ UNCHANGED <<meta, op, arg, calls>>

\* cli.py: codecompass search QUERY --stype S --limit N
StartCliSearch(search_type, query, limit) ==
    /\ Begin("c", "cli_search",
             [NoArg EXCEPT !.query = query, !.limit = limit, !.stype = search_type],
             "cli_dispatch")
    /\ loc' = NoLoc
    /\ UNCHANGED <<tbl, meta, cache>>

\* cli.py search: an unknown search_type prints "Invalid search type" and
\* exits 1; a known one runs strategies[search_type](repo_path, query, limit)
CliDispatch ==
    /\ pc["c"] = "cli_dispatch"
    /\ IF CliRejects(arg["c"].stype)
       THEN End("c", Exited("Invalid search type"))
       ELSE /\ loc' = [loc EXCEPT !.strat = SEARCH_STRATEGIES[arg["c"].stype]]
            /\ pc' = [pc EXCEPT !["c"] = "st_begin"]
            /\ UNCHANGED res
    /\ UNCHANGED <<tbl, meta, op, arg, cache, calls>>

\* rag.py: answer_question(repo_path, question, num_chunks, search_type)
StartAnswerQuestion(search_type, question, num_chunks) ==
    /\ Begin("c", "answer_question",
             [NoArg EXCEPT !.query = question, !.limit = num_chunks, !.stype = search_type],
             "aq_entry")
    /\ loc' = NoLoc
    /\ UNCHANGED <<tbl, meta, cache>>

\* answer_question: store = CodeStore(repo_path); not indexed returns the
\* fixed message; else search_fn = SEARCH_STRATEGIES.get(search_type,
\* hyde_search) and search_fn(repo_path, question, num_chunks)
AnswerQuestionEntry ==
    /\ pc["c"] = "aq_entry"
    /\ LET t == TableProperty(FALSE, tbl)
       IN  /\ tbl' = t.db
           /\ cache' = [cache EXCEPT !["c"] = t.handle]
           /\ IF ~IsIndexed(t.handle)
              THEN End("c", Returned("repository_not_indexed", 0))
              ELSE /\ loc' = [loc EXCEPT !.strat = SearchStrategiesGet(arg["c"].stype)]
                   /\ pc' = [pc EXCEPT !["c"] = "st_begin"]
                   /\ UNCHANGED res
    /\ UNCHANGED <<meta, op, arg, calls>>

\* answer_question: answer = generate(prompt, system=SYSTEM_PROMPT); return
\* answer; a failing generate() raises out of answer_question
AnswerGenerate ==
    /\ pc["c"] = "aq_generate"
    /\ calls' = [calls EXCEPT !.gen = @ + 1]
    /\ \/ End("c", Returned("answer", res["c"].n))
       \/ End("c", GenerateFailed)
    /\ UNCHANGED <<tbl, meta, op, arg, cache>>

\* CodeStore.get_stats() on the process's store
GetStatsCall(p) ==
    /\ Call(p, "get_stats", NoArg, "done")
    /\ res' = [res EXCEPT ![p] = GetStatsResult(GetStats(meta))]
    /\ loc' = IF p = "c" THEN NoLoc ELSE loc
    /\ UNCHANGED <<tbl, meta, cache>>

\* CodeStore.is_indexed() on the process's store
IsIndexedCall(p) ==
    /\ LET t == TableProperty(cache[p], tbl)
       IN  /\ Call(p, "is_indexed", NoArg, "done")
           /\ tbl' = t.db
           /\ cache' = [cache EXCEPT ![p] = t.handle]
           /\ res' = [res EXCEPT ![p] = Returned(IF IsIndexed(t.handle)
                                                 THEN "true" ELSE "false", 0)]
    /\ loc' = IF p = "c" THEN NoLoc ELSE loc
    /\ UNCHANGED meta

Read(p) ==
    \/ \E limit \in Limits : StartSearch(p, CHOOSE query \in Queries : TRUE, limit)
    \/ SearchTable(p)
    \/ SearchQuery(p)
    \/ GetStatsCall(p)
    \/ IsIndexedCall(p)

Retrieve ==
    \/ \E strat \in Strategies, query \in Queries, limit \in Limits :
         StartStrategy(strat, query, limit)
    \/ StrategyBegin
    \/ StrategyGenerate
    \/ SearchCodeCheck
    \/ \E search_type \in Selectors, query \in Queries, limit \in Limits :
         StartCliSearch(search_type, query, limit)
    \/ CliDispatch
    \/ \E search_type \in Selectors, question \in Queries, num_chunks \in Limits :
         StartAnswerQuestion(search_type, question, num_chunks)
    \/ AnswerQuestionEntry
    \/ AnswerGenerate

\* The store: the caller builds and reads, the reader reads beside it.
Next ==
    \/ Build
    \/ \E p \in Procs : Read(p)

Spec == Init /\ [][Next]_vars

\* Retrieval: the caller builds, runs strategies and dispatches, alone.
NextRetrieval ==
    \/ Build
    \/ Retrieve
    \/ Read("c")

SpecRetrieval == Init /\ [][NextRetrieval]_vars

\* Building alone, with the caller's process running on: a loop turn, the
\* metadata write and the return happen when they can.  Nothing is assumed
\* of the engine.
NextBuild == Build

SpecBuild ==
    /\ Init
    /\ [][NextBuild]_vars
    /\ WF_vars(WaitForIndex)
    /\ WF_vars(SaveMetadata)
    /\ WF_vars(WriteText)
    /\ WF_vars(IndexChunksReturn)

\* ------------------------------------------------------------------- HyDE
\* what generate() may answer to the HyDE prompt: bare code, a fenced block
\* with and without the language tag, a fenced block after a line of prose,
\* a fenced block whose code holds the word python, an opened fence alone
HydeTexts ==
    { <<"def", Ws, "f">>,
      <<Ws, Fence, "python", Ws, "def", Ws, "f", Ws, Fence, Ws>>,
      <<Fence, Ws, "def", Ws, "f", Ws, Fence>>,
      <<"Here", Ws, Fence, "python", Ws, "def", Ws, "f", Ws, Fence>>,
      <<Fence, Ws, "def", Ws, "python", Ws, Fence>>,
      <<Fence, "python", Ws, "def", Ws, "f">> }

\* hyde_search: hypothetical = generate(prompt), its stripping, and the
\* string handed to search_code; a failing generate() raises out of
\* hyde_search
HydeSearchGenerate ==
    /\ pc["c"] = "st_generate"
    /\ loc.strat = "hyde"
    /\ calls' = [calls EXCEPT !.gen = @ + 1]
    /\ \/ /\ \E generated \in HydeTexts :
                loc' = [loc EXCEPT !.generated = generated,
                                   !.sq = HydeQuery(generated)]
          /\ pc' = [pc EXCEPT !["c"] = "sc_check"]
          /\ UNCHANGED res
       \/ Finish("c", GenerateFailed)
    /\ UNCHANGED <<tbl, meta, op, arg, cache>>

\* HyDE searches on a repository that one-unit builds index
NextHyde ==
    \/ \E unit \in UnitPool : StartIndexChunks(<<unit>>)
    \/ IndexChunksEntry
    \/ EmbedChunk
    \/ CreateTableStep
    \/ CreateFtsIndex
    \/ EngineListsIndex
    \/ WaitForIndex
    \/ SaveMetadata
    \/ WriteText
    \/ IndexChunksReturn
    \/ \E query \in Queries, limit \in Limits : StartStrategy("hyde", query, limit)
    \/ StrategyBegin
    \/ HydeSearchGenerate
    \/ SearchCodeCheck
    \/ SearchTable("c")
    \/ SearchQuery("c")

SpecHyde == Init /\ [][NextHyde]_vars

\* ------------------------------------------------------------------ claims
Listed == FtsIndexName \in tbl.indices

RowIds == [k \in 1..Len(tbl.rows) |-> tbl.rows[k].id]

UnitIds(units) == [k \in 1..Len(units) |-> units[k].id]

\* the queryable rows are the units of the caller's call, one row per unit
\* in order, each written by that call's build
RowsAreCallersUnits ==
    /\ RowIds = UnitIds(arg["c"].units)
    /\ \A k \in 1..Len(tbl.rows) : tbl.rows[k].build = loc.build

CallerReturned(o) ==
    /\ op["c"] = o
    /\ pc["c"] = "done"
    /\ res["c"].kind = "return"

\* C1 as stated: after every index_repository call that returns, the rows
\* queryable for the repository are exactly the units chunked by that call,
\* one row per unit, none left from an earlier build.
C1_FullOverwriteEveryCall ==
    CallerReturned("index_repository") => RowsAreCallersUnits

\* C1 amended: after every index_repository call that chunked at least one
\* unit and returns, the table exists and its rows are exactly that call's
\* units, one row per unit in order, none left from an earlier build, and
\* the count returned is their number; a call that chunked no unit returns 0
\* and no step of it touches the table, so the rows of an earlier build stay
\* (nor does a step of a call whose chunking raises).
C1_FullOverwrite ==
    /\ [](CallerReturned("index_repository") =>
            IF arg["c"].units = <<>>
            THEN res["c"] = Returned("count", 0)
            ELSE /\ tbl.exists
                 /\ RowsAreCallersUnits
                 /\ res["c"] = Returned("count", Len(arg["c"].units)))
    /\ [][(op'["c"] = "index_repository" /\ arg'["c"].units = <<>>) => tbl' = tbl]_vars

\* a rebuild of the repository holding auth.py returned its three units:
\* the table it replaced had rows, of the other mark
C1_Witness ==
    /\ CallerReturned("index_repository")
    /\ arg["c"].files = <<AuthPy>>
    /\ res["c"] = Returned("count", 3)
    /\ loc.build = 1
    /\ tbl.exists
    /\ RowsAreCallersUnits

\* C2: index_chunks called with an empty unit list returns 0 and is a
\* no-op: no step of the call changes the table or the metadata record and
\* none calls embed(); on a repository never indexed, get_stats then
\* reports not_indexed.
C2_EmptyIndexChunksNoop ==
    /\ [][(op'["c"] = "index_chunks" /\ arg'["c"].units = <<>>) =>
            /\ tbl' = tbl
            /\ meta' = meta
            /\ calls'.embed = 0
            /\ pc'["c"] \in {"ic_entry", "done"}]_vars
    /\ []((op["c"] = "index_chunks" /\ arg["c"].units = <<>> /\ pc["c"] = "done") =>
            /\ res["c"] = Returned("count", 0)
            /\ (~tbl.exists => GetStats(meta).status = "not_indexed"))

\* the empty call has returned 0 on a repository never indexed
C2_Witness ==
    /\ CallerReturned("index_chunks")
    /\ arg["c"].units = <<>>
    /\ res["c"] = Returned("count", 0)
    /\ ~tbl.exists
    /\ ~meta.exists

CallerBuilds == op["c"] \in {"index_repository", "index_chunks"}

\* C3: a non-empty index_chunks is about to write the metadata record, is
\* writing it, is about to return, or has returned, only with the full-text
\* index listed (so wait_for_index has seen it); and every hybrid query the
\* caller then runs finds the table with its full-text index listed.
C3_ReadyBeforeMetadataAndReturn ==
    /\ pc["c"] \in {"save_meta", "write_meta", "ic_ret"} => Listed
    /\ (CallerBuilds /\ pc["c"] = "done" /\ res["c"].kind = "return"
          /\ arg["c"].units # <<>>) => (Listed /\ meta.exists /\ meta.written)
    /\ pc["c"] = "s_query" => (tbl.exists /\ Listed)
    /\ (op["c"] = "search" /\ pc["c"] = "done") =>
          /\ res["c"].tag # "EngineError"
          /\ (res["c"].tag = "list" /\ cache["c"]) => res["c"].fts

\* the caller's search after a build: the hybrid query ran on a ready table
C3_Witness ==
    /\ CallerReturned("search")
    /\ res["c"].tag = "list"
    /\ res["c"].n > 0
    /\ res["c"].fts

\* C4: wait_for_index has no deadline.  While the index is not listed the
\* caller stays in the loop, whatever the timeout and however often it has
\* slept: it does not return, raise or write metadata.  Once the index is
\* listed, index_chunks returns (the caller's process running on).
C4_WaitWithoutDeadline ==
    /\ [][(pc["c"] = "wait" /\ ~Listed) =>
            /\ pc'["c"] = "wait"
            /\ meta' = meta
            /\ res'["c"] = res["c"]]_vars
    /\ ((pc["c"] = "wait" /\ Listed) ~> (pc["c"] = "done" /\ res["c"].kind = "return"))

\* still waiting after as many sleeps as are counted, timeout not zero,
\* no metadata written
C4_Witness ==
    /\ pc["c"] = "wait"
    /\ ~Listed
    /\ loc.polls = MaxPolls
    /\ loc.timeout = DefaultTimeout
    /\ ~meta.exists

\* C5: nothing keeps a reader out while a build is between create_table and
\* _save_metadata.  All through that window the table already holds the new
\* build's rows while the metadata record is absent or is the previous
\* build's, and when the window opens the new table has no full-text index
\* listed.
C5_BuildWindowVisible ==
    /\ pc["c"] \in {"create_fts", "wait", "save_meta"} =>
          /\ tbl.exists
          /\ RowsAreCallersUnits
          /\ (~meta.exists \/ meta.build # loc.build)
    /\ pc["c"] = "create_fts" => ~Listed

\* the reader's search got rows from the replaced table while its full-text
\* index was not listed, and the metadata record is still the previous build's
C5_Witness ==
    /\ pc["c"] = "wait"
    /\ ~Listed
    /\ op["r"] = "search"
    /\ pc["r"] = "done"
    /\ res["r"].tag = "list"
    /\ res["r"].n > 0
    /\ ~res["r"].fts
    /\ meta.exists
    /\ meta.build # loc.build

\* C6 as stated: a retrieval strategy called while no table exists for the
\* repository issues no store search and, when it ends, ends with the
\* ValueError that search_code raises; it returns no list, empty or not.
\* (The caller is alone, so no table appears during the call.)
C6_StrategyOnNoTableRaises ==
    (op["c"] = "strategy" /\ ~tbl.exists) =>
        /\ calls.search = 0
        /\ calls.embed = 0
        /\ pc["c"] \in {"st_begin", "st_generate", "sc_check", "done"}
        /\ pc["c"] = "done" => res["c"] = Raised("ValueError")

\* C6 amended: a retrieval strategy called while no table exists for the
\* repository issues no store search and no embedding call and returns no
\* list, empty or not: it ends with an error raised to its caller, which is
\* the ValueError of search_code unless the strategy's own generate() call,
\* made before search_code, has failed; then it is that failure, and
\* search_code is not reached.  Baseline and the keyword expansion (v4)
\* call no generate() and always end with the ValueError.
C6_StrategyOnNoTableEndsInError ==
    (op["c"] = "strategy" /\ ~tbl.exists) =>
        /\ calls.search = 0
        /\ calls.embed = 0
        /\ pc["c"] \in {"st_begin", "st_generate", "sc_check", "done"}
        /\ pc["c"] = "done" =>
              /\ res["c"] \in {Raised("ValueError"), GenerateFailed}
              /\ res["c"] = GenerateFailed =>
                    (loc.strat \in GeneratingStrategies /\ calls.gen = 1)
              /\ loc.strat \notin GeneratingStrategies =>
                    (res["c"] = Raised("ValueError") /\ calls.gen = 0)

\* a strategy that asked generate() first has ended with search_code's error
C6_Witness ==
    /\ op["c"] = "strategy"
    /\ pc["c"] = "done"
    /\ ~tbl.exists
    /\ loc.strat = "hyde"
    /\ calls.gen = 1
    /\ res["c"] = Raised("ValueError")

\* a strategy whose generate() call failed has ended with that failure, on a
\* repository with no table
C6_GenerationFailed ==
    /\ op["c"] = "strategy"
    /\ pc["c"] = "done"
    /\ ~tbl.exists
    /\ loc.strat = "query_expansion"
    /\ calls.gen = 1
    /\ res["c"] = GenerateFailed

\* C7: CodeStore.search on a store that finds no table returns the empty
\* list, for every limit, without a call to embed() and without raising.
C7_SearchOnNoTableIsEmpty ==
    \A p \in Procs :
        (op[p] = "search" /\ pc[p] = "done" /\ ~cache[p]) =>
            /\ res[p] = ReturnedList(0, FALSE)
            /\ p = "c" => (calls.embed = 0 /\ calls.search = 1)

\* the caller's search with a positive limit returned [] on a repository
\* with no table
C7_Witness ==
    /\ op["c"] = "search"
    /\ pc["c"] = "done"
    /\ ~tbl.exists
    /\ arg["c"].limit = MaxLimit
    /\ res["c"] = ReturnedList(0, FALSE)
    /\ calls.embed = 0

UnknownSelector == arg["c"].stype \notin DOMAIN SEARCH_STRATEGIES

\* C8: a selector outside {0, 1, 2} is rejected at both dispatch points:
\* the cli search command and answer_question select no strategy for it, and
\* on an indexed repository the call ends in an explicit error.
C8_UnknownSelectorRejected ==
    (op["c"] \in {"cli_search", "answer_question"} /\ UnknownSelector) =>
        /\ loc.strat = "none"
        /\ calls.search = 0
        /\ (pc["c"] = "done" /\ tbl.exists) => res["c"].kind \in {"exit", "raise"}

\* C9: is_indexed() is true exactly when the table exists and get_stats()
\* reports not_indexed exactly when the metadata record (metadata.json) is
\* absent, on every process's store and in every state, whatever the other
\* artifact is; the answers a call gives are those of the state it is made
\* in.  (get_stats() reports indexed exactly when the file is there with
\* its content written.)
C9_IsIndexedAndStatsIndependent ==
    /\ [](/\ \A p \in Procs :
                IsIndexed(TableProperty(cache[p], tbl).handle) <=> tbl.exists
          /\ (GetStats(meta).status = "not_indexed") <=> ~meta.exists
          /\ (GetStats(meta).status = "indexed") <=> (meta.exists /\ meta.written))
    /\ [][\A p \in Procs :
            (op'[p] # op[p] /\ pc'[p] = "done") =>
                /\ op'[p] = "is_indexed" =>
                      ((res'[p].tag = "true") <=> tbl.exists)
                /\ op'[p] = "get_stats" =>
                      ((res'[p].tag = "not_indexed") <=> ~meta.exists)]_vars

\* a build interrupted after table creation: the table is there, the
\* metadata record is not, the reader's is_indexed() has answered true
C9_Witness ==
    /\ pc["c"] = "wait"
    /\ tbl.exists
    /\ ~meta.exists
    /\ op["r"] = "is_indexed"
    /\ res["r"] = Returned("true", 0)
    /\ GetStats(meta).status = "not_indexed"

ReadOps == {"search", "strategy", "cli_search", "answer_question"}

\* C10: no step of CodeStore.search, of search_code, of a strategy or of a
\* dispatch that runs one changes the table (its rows, its indices) or the
\* metadata record, whether the call returns or raises.
C10_SearchesLeaveIndexUnchanged ==
    [][op'["c"] \in ReadOps => (tbl' = tbl /\ meta' = meta)]_vars

\* a strategy has returned rows of an indexed repository
C10_Witness ==
    /\ op["c"] = "strategy"
    /\ pc["c"] = "done"
    /\ res["c"].tag = "list"
    /\ res["c"].n > 0
    /\ tbl.exists
    /\ meta.exists

\* ------------------------------------------------------------------ metrics
\* evaluation/retrieval/metrics.py.  A float result hits / n is kept as the
\* pair <<hits, n>>; 1.0 is <<1, 1>> and 0.0 is <<0, 1>>.
RetrievedIds == {"a", "b", "c"}
ExpectedIds == {"b", "x"}
RetrievedLists == SeqsUpTo(RetrievedIds, MaxRetrieved)
ExpectedLists == SeqsUpTo(ExpectedIds, MaxExpected)
Ks == (-1)..MaxK

\* two quotients are the same float
SameFloat(p, q) == p[1] * q[2] = q[1] * p[2]

\* a recall that divides by the length of the expected list
RecallOverListLength(retrieved, expected, k) ==
    IF Len(expected) = 0 THEN <<1, 1>>
    ELSE <<Cardinality(SeqToSet(Take(retrieved, k)) \cap SeqToSet(expected)),
           Len(expected)>>

\* recall_at_k: 1.0 when expected is empty, else
\* len(set(retrieved[:k]) & set(expected)) / len(set(expected))
RecallAtK(retrieved, expected, k) ==
    IF Len(expected) = 0 THEN <<1, 1>>
    ELSE LET retrieved_k == SeqToSet(Take(retrieved, k))
             expected_set == SeqToSet(expected)
             hits == Cardinality(retrieved_k \cap expected_set)
         IN  <<hits, Cardinality(expected_set)>>

\* sum(1 for r in retrieved_k if r in expected_set)
RECURSIVE CountHits(_, _)
CountHits(retrieved_k, expected_set) ==
    IF retrieved_k = <<>> THEN 0
    ELSE (IF Head(retrieved_k) \in expected_set THEN 1 ELSE 0)
         + CountHits(Tail(retrieved_k), expected_set)

\* a precision that counts each retrieved id once
PrecisionOfDistinct(retrieved, expected, k) ==
    LET retrieved_k == Take(retrieved, k)
    IN  IF Len(retrieved_k) = 0 THEN <<0, 1>>
        ELSE <<Cardinality(SeqToSet(retrieved_k) \cap SeqToSet(expected)),
               Len(retrieved_k)>>

\* precision_at_k: 0.0 when retrieved[:k] is empty, else the number of
\* elements of retrieved[:k] that are in set(expected), over len(retrieved[:k])
PrecisionAtK(retrieved, expected, k) ==
    LET retrieved_k == Take(retrieved, k)
    IN  IF Len(retrieved_k) = 0 THEN <<0, 1>>
        ELSE <<CountHits(retrieved_k, SeqToSet(expected)), Len(retrieved_k)>>

ReturnedFloat(tag, value) ==
    [NoRes EXCEPT !.kind = "return", !.tag = tag, !.ratio = value]

\* a call of recall_at_k(retrieved, expected, k), the first thing an
\* evaluation process does (the function reads its arguments only)
RecallAtKCall(retrieved, expected, k) ==
    /\ pc["c"] = "idle"
    /\ Call("c", "recall_at_k",
            [NoArg EXCEPT !.retrieved = retrieved, !.expected = expected, !.k = k],
            "done")
    /\ res' = [res EXCEPT !["c"] =
                  ReturnedFloat("recall", RecallAtK(retrieved, expected, k))]
    /\ loc' = NoLoc
    /\ UNCHANGED <<tbl, meta, cache>>

\* a call of precision_at_k(retrieved, expected, k), likewise
PrecisionAtKCall(retrieved, expected, k) ==
    /\ pc["c"] = "idle"
    /\ Call("c", "precision_at_k",
            [NoArg EXCEPT !.retrieved = retrieved, !.expected = expected, !.k = k],
            "done")
    /\ res' = [res EXCEPT !["c"] =
                  ReturnedFloat("precision", PrecisionAtK(retrieved, expected, k))]
    /\ loc' = NoLoc
    /\ UNCHANGED <<tbl, meta, cache>>

\* mrr: 1.0 / (i + 1) for the first i with retrieved[i] in set(expected),
\* 0.0 when the loop ends without one; from is the 1-based place looked at
RECURSIVE MrrFrom(_, _, _)
MrrFrom(retrieved, expected_set, from) ==
    IF from > Len(retrieved) THEN <<0, 1>>
    ELSE IF retrieved[from] \in expected_set THEN <<1, from>>
    ELSE MrrFrom(retrieved, expected_set, from + 1)

Mrr(retrieved, expected) == MrrFrom(retrieved, SeqToSet(expected), 1)

\* f1_at_k: 0.0 when p + r == 0, else 2 * (p * r) / (p + r)
F1AtK(retrieved, expected, k) ==
    LET p == PrecisionAtK(retrieved, expected, k)
        r == RecallAtK(retrieved, expected, k)
        sum == p[1] * r[2] + r[1] * p[2]
    IN  IF sum = 0 THEN <<0, 1>>
        ELSE <<2 * p[1] * r[1], sum>>

\* [r for r in retrieved_k if r in expected_set]
RECURSIVE HitsOf(_, _)
HitsOf(retrieved_k, expected_set) ==
    IF retrieved_k = <<>> THEN <<>>
    ELSE (IF Head(retrieved_k) \in expected_set THEN <<Head(retrieved_k)>> ELSE <<>>)
         \o HitsOf(Tail(retrieved_k), expected_set)

\* an evaluation whose reciprocal rank stops at k
EvaluateSingleQueryCutoff(retrieved, expected, k) ==
    [recall_at_k    |-> RecallAtK(retrieved, expected, k),
     precision_at_k |-> PrecisionAtK(retrieved, expected, k),
     mrr            |-> Mrr(Take(retrieved, k), expected),
     f1_at_k        |-> F1AtK(retrieved, expected, k),
     k              |-> k,
     retrieved      |-> Take(retrieved, k),
     expected       |-> expected,
     hits           |-> HitsOf(Take(retrieved, k), SeqToSet(expected))]

\* evaluate_single_query: the RetrievalMetrics object
EvaluateSingleQuery(retrieved, expected, k) ==
    [recall_at_k    |-> RecallAtK(retrieved, expected, k),
     precision_at_k |-> PrecisionAtK(retrieved, expected, k),
     mrr            |-> Mrr(retrieved, expected),
     f1_at_k        |-> F1AtK(retrieved, expected, k),
     k              |-> k,
     retrieved      |-> Take(retrieved, k),
     expected       |-> expected,
     hits           |-> HitsOf(Take(retrieved, k), SeqToSet(expected))]

ReturnedValue(tag, value) ==
    [NoRes EXCEPT !.kind = "return", !.tag = tag, !.value = value]

\* a call of mrr(retrieved, expected)
MrrCall(retrieved, expected) ==
    /\ pc["c"] = "idle"
    /\ Call("c", "mrr",
            [NoArg EXCEPT !.retrieved = retrieved, !.expected = expected],
            "done")
    /\ res' = [res EXCEPT !["c"] = ReturnedFloat("mrr", Mrr(retrieved, expected))]
    /\ loc' = NoLoc
    /\ UNCHANGED <<tbl, meta, cache>>

\* a call of evaluate_single_query(retrieved, expected, k)
EvaluateSingleQueryCall(retrieved, expected, k) ==
    /\ pc["c"] = "idle"
    /\ Call("c", "evaluate_single_query",
            [NoArg EXCEPT !.retrieved = retrieved, !.expected = expected, !.k = k],
            "done")
    /\ res' = [res EXCEPT !["c"] =
                  ReturnedValue("metrics", EvaluateSingleQuery(retrieved, expected, k))]
    /\ loc' = NoLoc
    /\ UNCHANGED <<tbl, meta, cache>>

\* the per-query metrics a list handed to aggregate_metrics is made of
MetricsPool ==
    { EvaluateSingleQuery(<<"a", "b", "c">>, <<"b", "x">>, 3),
      EvaluateSingleQuery(<<"b">>, <<"b">>, 1),
      EvaluateSingleQuery(<<"a">>, <<"x">>, 1),
      EvaluateSingleQuery(<<"b", "b", "a">>, <<"b">>, 2),
      EvaluateSingleQuery(<<>>, <<>>, 3) }

MetricsLists == SeqsUpTo(MetricsPool, MaxQueries)

\* sum(x for x in values), values being quotients
RECURSIVE SumOf(_)
SumOf(values) ==
    IF values = <<>> THEN <<0, 1>>
    ELSE LET h == Head(values)
             t == SumOf(Tail(values))
         IN  <<h[1] * t[2] + t[1] * h[2], h[2] * t[2]>>

\* sum(...) / n
Average(values, n) == LET t == SumOf(values) IN <<t[1], t[2] * n>>

\* the dict with no key
EmptyDict == [key \in {} |-> 0]

\* an aggregation that answers an empty list with zeros
AggregateMetricsZeros(metrics_list) ==
    LET n == Len(metrics_list)
        d == IF n = 0 THEN 1 ELSE n
    IN  [avg_recall_at_k    |-> Average([i \in 1..n |-> metrics_list[i].recall_at_k], d),
         avg_precision_at_k |-> Average([i \in 1..n |-> metrics_list[i].precision_at_k], d),
         avg_mrr            |-> Average([i \in 1..n |-> metrics_list[i].mrr], d),
         avg_f1_at_k        |-> Average([i \in 1..n |-> metrics_list[i].f1_at_k], d),
         num_queries        |-> n,
         k                  |-> IF n = 0 THEN 0 ELSE metrics_list[1].k]

\* aggregate_metrics: {} for an empty list, else the averages, the number of
\* queries and the k of the first entry
AggregateMetrics(metrics_list) ==
    IF Len(metrics_list) = 0 THEN EmptyDict
    ELSE LET n == Len(metrics_list)
         IN  [avg_recall_at_k    |-> Average([i \in 1..n |-> metrics_list[i].recall_at_k], n),
              avg_precision_at_k |-> Average([i \in 1..n |-> metrics_list[i].precision_at_k], n),
              avg_mrr            |-> Average([i \in 1..n |-> metrics_list[i].mrr], n),
              avg_f1_at_k        |-> Average([i \in 1..n |-> metrics_list[i].f1_at_k], n),
              num_queries        |-> n,
              k                  |-> metrics_list[1].k]

\* a call of aggregate_metrics(metrics_list)
AggregateMetricsCall(metrics_list) ==
    /\ pc["c"] = "idle"
    /\ Call("c", "aggregate_metrics",
            [NoArg EXCEPT !.metrics_list = metrics_list], "done")
    /\ res' = [res EXCEPT !["c"] =
                  ReturnedValue("dict", AggregateMetrics(metrics_list))]
    /\ loc' = NoLoc
    /\ UNCHANGED <<tbl, meta, cache>>

\* Evaluation alone: one metric call after another.
NextMetrics ==
    \/ \E retrieved \in RetrievedLists, expected \in ExpectedLists, k \in Ks :
         RecallAtKCall(retrieved, expected, k)
    \/ \E retrieved \in RetrievedLists, expected \in ExpectedLists, k \in Ks :
         PrecisionAtKCall(retrieved, expected, k)
    \/ \E retrieved \in RetrievedLists, expected \in ExpectedLists :
         MrrCall(retrieved, expected)
    \/ \E retrieved \in RetrievedLists, expected \in ExpectedLists, k \in Ks :
         EvaluateSingleQueryCall(retrieved, expected, k)
    \/ \E metrics_list \in MetricsLists : AggregateMetricsCall(metrics_list)

SpecMetrics == Init /\ [][NextMetrics]_vars

\* ----------------------------------------------------------- chunker claims
ChunkerRuns == op["c"] = "chunk_repository"

\* the units chunk_repository has yielded so far
Out == loc.chunks

\* the files chunk_file has gone through to its end
Processed ==
    IF ChunkerRuns
    THEN { loc.filtered[k] : k \in 1..Min(loc.i - 1, Len(loc.filtered)) }
    ELSE {}

\* the units yielded for file f
UnitsOf(f) == SelectSeq(Out, LAMBDA u : u.file_path = PathStr(f.path))

\* C11: in the sequence one chunk_repository run produces, no two units have
\* the same id.
C11_IdsUnique ==
    ChunkerRuns =>
        \A i, j \in 1..Len(Out) : i # j => Out[i].id # Out[j].id

\* C12: every unit yielded has kind method exactly when its parent_class is
\* set; its id is the file's repository-relative path, "::", then
\* parent_class "." name when parent_class is set and name alone otherwise;
\* a class unit has no parent_class, also when the class is nested in a class.
C12_UnitsWellFormed ==
    ChunkerRuns =>
        \A k \in 1..Len(Out) :
            LET u == Out[k]
            IN  /\ (u.chunk_type = "method") <=> (u.parent_class # None)
                /\ u.chunk_type \in {"function", "class", "method"}
                /\ \E f \in SeqToSet(arg["c"].files) : u.file_path = PathStr(f.path)
                /\ u.id = IF u.parent_class # None
                          THEN u.file_path \o <<"::", u.parent_class, ".", u.name>>
                          ELSE u.file_path \o <<"::", u.name>>
                /\ u.chunk_type = "class" => u.parent_class = None

\* tree.py has been chunked: the nested class Node is a class unit with no
\* parent_class, its method walk has parent_class Node
C12_Witness ==
    /\ ChunkerRuns
    /\ pc["c"] = "done"
    /\ res["c"].kind = "return"
    /\ \E k \in 1..Len(Out) :
         /\ Out[k].name = "Node"
         /\ Out[k].chunk_type = "class"
         /\ Out[k].parent_class = None
         /\ Out[k].id = <<"tree", ".py", "::", "Node">>
    /\ \E k \in 1..Len(Out) :
         /\ Out[k].chunk_type = "method"
         /\ Out[k].id = <<"tree", ".py", "::", "Node", ".", "walk">>

\* the statements of a definition's body
BodyOf(definition) ==
    LET body == GetChildByType(definition, "block")
    IN  IF body = NoNode THEN <<>> ELSE body.children

\* the definition a statement is: itself, or the one under its decorators
DefinitionIn(stmt) ==
    IF stmt.type = "decorated_definition" THEN stmt.children[Len(stmt.children)]
    ELSE stmt

IsFunction(stmt) == DefinitionIn(stmt).type = "function_definition"
IsClass(stmt) == DefinitionIn(stmt).type = "class_definition"

\* f holds one class whose body holds methods (and perhaps a docstring), and
\* no other definition
SingleClassFile(f) ==
    LET top == f.tree.children
    IN  /\ Cardinality({k \in 1..Len(top) : IsClass(top[k])}) = 1
        /\ \A k \in 1..Len(top) :
              IsClass(top[k]) \/ top[k].type \in {"import_statement", "import_from_statement"}
        /\ \A k \in 1..Len(top) : IsClass(top[k]) =>
              \A m \in 1..Len(BodyOf(DefinitionIn(top[k]))) :
                  LET stmt == BodyOf(DefinitionIn(top[k]))[m]
                  IN  IsFunction(stmt) \/ stmt.type = "expression_statement"

\* the number of methods of that class
MethodCount(f) ==
    LET top == f.tree.children
        class == DefinitionIn(top[CHOOSE k \in 1..Len(top) : IsClass(top[k])])
    IN  Cardinality({m \in 1..Len(BodyOf(class)) : IsFunction(BodyOf(class)[m])})

\* C13: every method unit comes after a class unit of the same file whose
\* name is the method's parent_class; the methods of one class come in source
\* order; a file of one class with n methods and nothing else gives n + 1
\* units, the class first.
C13_ClassBeforeItsMethods ==
    ChunkerRuns =>
        /\ \A k \in 1..Len(Out) : Out[k].chunk_type = "method" =>
              \E j \in 1..(k - 1) :
                  /\ Out[j].chunk_type = "class"
                  /\ Out[j].name = Out[k].parent_class
                  /\ Out[j].file_path = Out[k].file_path
        /\ \A i, j \in 1..Len(Out) :
              (/\ i < j
               /\ Out[i].chunk_type = "method"
               /\ Out[j].chunk_type = "method"
               /\ Out[i].file_path = Out[j].file_path
               /\ Out[i].parent_class = Out[j].parent_class)
              => Out[i].start_line < Out[j].start_line
        /\ \A f \in Processed : SingleClassFile(f) =>
              LET units == UnitsOf(f)
              IN  /\ Len(units) = MethodCount(f) + 1
                  /\ units[1].chunk_type = "class"
                  /\ \A k \in 2..Len(units) :
                        /\ units[k].chunk_type = "method"
                        /\ units[k].parent_class = units[1].name

\* models/shape.py, one class with three methods, has given four units
C13_Witness ==
    /\ ChunkerRuns
    /\ ShapePy \in Processed
    /\ SingleClassFile(ShapePy)
    /\ MethodCount(ShapePy) = 3
    /\ Len(UnitsOf(ShapePy)) = 4
    /\ UnitsOf(ShapePy)[1].name = "Shape"
    /\ UnitsOf(ShapePy)[4].name = "scale"

\* the decorated statements of f at module level and in the bodies of its
\* module-level classes, each with the class it is in (None at module level)
DecoratedStmts(f) ==
    LET top == f.tree.children
    IN  { [stmt |-> top[k], parent |-> None] :
            k \in {k \in 1..Len(top) : top[k].type = "decorated_definition"} }
        \cup UNION {
            LET class == DefinitionIn(top[k])
                body == BodyOf(class)
            IN  { [stmt |-> body[m], parent |-> GetName(class)] :
                    m \in {m \in 1..Len(body) : body[m].type = "decorated_definition"} } :
            k \in {k \in 1..Len(top) : IsClass(top[k])} }

\* the positions in the units of f of those whose span starts at this row
UnitsStartingAt(f, row) ==
    {k \in 1..Len(UnitsOf(f)) : UnitsOf(f)[k].start_line = row + 1}

\* C14: a decorated function or class gives exactly one unit, none for its
\* decorators: the unit's name is the name of the definition under the
\* decorators, its code and lines are those of the whole decorated node, from
\* the first decorator on, and a decorated function in a class body is a
\* method of that class.
C14_DecoratedDefinitionOneUnit ==
    \A f \in Processed : \A d \in DecoratedStmts(f) :
        LET inner == DefinitionIn(d.stmt)
            at == UnitsStartingAt(f, d.stmt.start)
        IN  /\ Cardinality(at) = 1
            /\ UnitsStartingAt(f, inner.start) = {}
            /\ \A k \in at :
                  LET u == UnitsOf(f)[k]
                  IN  /\ u.name = GetName(inner)
                      /\ u.code = Bytes(f.lines, d.stmt.start, d.stmt.end)
                      /\ u.start_line = d.stmt.start + 1
                      /\ u.end_line = d.stmt.end + 1
                      /\ (IsFunction(d.stmt) /\ d.parent # None) =>
                            (u.chunk_type = "method" /\ u.parent_class = d.parent)
                      /\ (IsFunction(d.stmt) /\ d.parent = None) =>
                            u.chunk_type = "function"
                      /\ IsClass(d.stmt) => u.chunk_type = "class"

\* both files with decorated definitions have been chunked: the decorated
\* class of auth.py and the decorated getter of models/shape.py each gave a
\* unit that starts at its decorator
C14_Witness ==
    /\ ChunkerRuns
    /\ AuthPy \in Processed
    /\ ShapePy \in Processed
    /\ \E k \in 1..Len(Out) :
         /\ Out[k].name = "Session"
         /\ Out[k].chunk_type = "class"
         /\ Out[k].start_line = 5
         /\ Head(Out[k].code) = "@cache"
    /\ \E k \in 1..Len(Out) :
         /\ Out[k].name = "area"
         /\ Out[k].chunk_type = "method"
         /\ Out[k].start_line = 4
         /\ Head(Out[k].code) = "@property"

\* the definition statements of f at module level and in the bodies of its
\* module-level classes
DefinitionStmts(f) ==
    LET top == f.tree.children
    IN  { top[k] : k \in {k \in 1..Len(top) : IsFunction(top[k]) \/ IsClass(top[k])} }
        \cup UNION {
            LET body == BodyOf(DefinitionIn(top[k]))
            IN  { body[m] : m \in {m \in 1..Len(body) :
                                     IsFunction(body[m]) \/ IsClass(body[m])} } :
            k \in {k \in 1..Len(top) : IsClass(top[k])} }

\* the first statement of the definition's body is a lone string literal
HasDocLiteral(definition) ==
    LET body == BodyOf(definition)
    IN  /\ body # <<>>
        /\ body[1].type = "expression_statement"
        /\ Len(body[1].children) = 1
        /\ body[1].children[1].type = "string"

\* C15: a unit has a docstring exactly when the first statement of its
\* definition's body is a lone string literal, whether the definition is
\* decorated or not.
C15_DocstringIffLiteral ==
    \A f \in Processed : \A stmt \in DefinitionStmts(f) :
        \A k \in UnitsStartingAt(f, stmt.start) :
            (UnitsOf(f)[k].docstring # NoText) <=> HasDocLiteral(DefinitionIn(stmt))

\* the file's bytes are not all valid UTF-8
Undecodable(f) == DecodeRaises(f.lines)

\* C16: a file whose bytes cannot be decoded gives no unit and no error:
\* chunk_repository goes on with the other files and never raises.
C16_UnreadableFileSkipped ==
    ChunkerRuns =>
        /\ res["c"].kind # "raise"
        /\ \A f \in SeqToSet(loc.filtered) : Undecodable(f) => UnitsOf(f) = <<>>

\* a directory component of the file's path under the repository root
\* carries an ignore pattern
InIgnoredDirectory(f) ==
    \E k \in 1..(Len(f.path) - 1), pattern \in IgnorePatterns :
        Contains(f.path[k], pattern)

\* C17: chunk_repository chunks a .py file under the root exactly when no
\* directory component of its path relative to the root matches an ignore
\* pattern.
C17_EligibleIffNoIgnoredDirectory ==
    (ChunkerRuns /\ pc["c"] \in {"cr_file", "done"}) =>
        \A f \in SeqToSet(arg["c"].files) :
            (f \in SeqToSet(loc.filtered)) <=> ~InIgnoredDirectory(f)

\* ------------------------------------------------------------- metadata
\* the top-level names of the modules the units' import statements name
ReferencedModules(units) ==
    UNION { UNION { { Head(units[k].imports[j].names[m]) :
                        m \in 1..Len(units[k].imports[j].names) } :
                    j \in 1..Len(units[k].imports) } :
            k \in 1..Len(units) }

\* C18: after an index_chunks call with a non-empty unit list has returned,
\* the metadata record's chunk_count is the call's return value, the number
\* of units passed and the number of rows of the table; its imports list has
\* no duplicates and holds the top-level name of every module that an
\* import statement of a unit names.
C18_MetadataConsistent ==
    (CallerReturned("index_chunks") /\ arg["c"].units # <<>>) =>
        /\ meta.exists
        /\ meta.chunk_count = res["c"].n
        /\ meta.chunk_count = Len(arg["c"].units)
        /\ meta.chunk_count = Len(tbl.rows)
        /\ \A i, j \in 1..Len(meta.imports) : i # j => meta.imports[i] # meta.imports[j]
        /\ ReferencedModules(arg["c"].units) \subseteq SeqToSet(meta.imports)

\* ------------------------------------------------------------ metric claims
\* retrieved[:k] of the call the caller has made
TopK == Take(arg["c"].retrieved, arg["c"].k)

\* C19: recall_at_k is 1.0 whenever expected is empty; otherwise it is the
\* number of distinct ids that are in retrieved[:k] and in expected, over the
\* number of distinct expected ids; it lies in [0, 1].
C19_RecallAtK ==
    (op["c"] = "recall_at_k" /\ pc["c"] = "done") =>
        LET value == res["c"].ratio
            both == {id \in RetrievedIds \cup ExpectedIds :
                        /\ \E i \in 1..Len(TopK) : TopK[i] = id
                        /\ \E j \in 1..Len(arg["c"].expected) : arg["c"].expected[j] = id}
            distinct == {arg["c"].expected[j] : j \in 1..Len(arg["c"].expected)}
        IN  /\ res["c"].kind = "return"
            /\ value[2] > 0
            /\ 0 <= value[1]
            /\ value[1] <= value[2]
            /\ arg["c"].expected = <<>> => SameFloat(value, <<1, 1>>)
            /\ arg["c"].expected # <<>> =>
                  SameFloat(value, <<Cardinality(both), Cardinality(distinct)>>)

\* recall@3 of [a, b, c] against [b, x] is 1/2
C19_Witness ==
    /\ op["c"] = "recall_at_k"
    /\ pc["c"] = "done"
    /\ arg["c"].retrieved = <<"a", "b", "c">>
    /\ arg["c"].expected = <<"b", "x">>
    /\ arg["c"].k = 3
    /\ SameFloat(res["c"].ratio, <<1, 2>>)

\* the number of places of retrieved[:k] that hold an expected id
RelevantPlaces ==
    Cardinality({i \in 1..Len(TopK) :
                   \E j \in 1..Len(arg["c"].expected) : arg["c"].expected[j] = TopK[i]})

\* the number of distinct ids that are in retrieved[:k] and in expected
DistinctHits ==
    Cardinality({id \in RetrievedIds \cup ExpectedIds :
                   /\ \E i \in 1..Len(TopK) : TopK[i] = id
                   /\ \E j \in 1..Len(arg["c"].expected) : arg["c"].expected[j] = id})

NoRepeats(s) == \A i, j \in 1..Len(s) : i # j => s[i] # s[j]

\* C20 as stated: precision_at_k is 0.0 when retrieved[:k] is empty, and
\* otherwise the number of distinct ids in retrieved[:k] and in expected
\* (recall_at_k's hit count) over the length of retrieved[:k], repeated ids
\* allowed.
C20_PrecisionOfDistinctHits ==
    (op["c"] = "precision_at_k" /\ pc["c"] = "done") =>
        /\ TopK = <<>> => SameFloat(res["c"].ratio, <<0, 1>>)
        /\ TopK # <<>> => SameFloat(res["c"].ratio, <<DistinctHits, Len(TopK)>>)

\* C20: precision_at_k is 0.0 when retrieved[:k] is empty; otherwise it is
\* the number of places of retrieved[:k] that hold an expected id, a repeated
\* id counted at each of its places, over the length of retrieved[:k].  That
\* count is recall_at_k's hit count when retrieved[:k] repeats no id.
C20_PrecisionAtK ==
    (op["c"] = "precision_at_k" /\ pc["c"] = "done") =>
        /\ res["c"].kind = "return"
        /\ TopK = <<>> => SameFloat(res["c"].ratio, <<0, 1>>)
        /\ TopK # <<>> => SameFloat(res["c"].ratio, <<RelevantPlaces, Len(TopK)>>)
        /\ (TopK # <<>> /\ NoRepeats(TopK)) =>
              /\ RelevantPlaces = DistinctHits
              /\ arg["c"].expected # <<>> =>
                    res["c"].ratio[1] =
                        RecallAtK(arg["c"].retrieved, arg["c"].expected, arg["c"].k)[1]

\* precision@2 of [b, b] against [b]: both places count, 2/2
C20_Witness ==
    /\ op["c"] = "precision_at_k"
    /\ pc["c"] = "done"
    /\ arg["c"].retrieved = <<"b", "b">>
    /\ arg["c"].expected = <<"b">>
    /\ arg["c"].k = 2
    /\ res["c"].ratio = <<2, 2>>
    /\ DistinctHits = 1

\* the places of the whole retrieved list that hold an expected id
HitPlaces ==
    {i \in 1..Len(arg["c"].retrieved) :
       \E j \in 1..Len(arg["c"].expected) :
          arg["c"].expected[j] = arg["c"].retrieved[i]}

\* 1/p for the first such place p, 0.0 when there is none
ReciprocalRank ==
    IF HitPlaces = {} THEN <<0, 1>>
    ELSE <<1, CHOOSE p \in HitPlaces : \A q \in HitPlaces : p <= q>>

\* C21: mrr(retrieved, expected) is 1/p for the first place p of the whole
\* retrieved list whose id is in expected, and 0.0 when there is none; the
\* mrr field of evaluate_single_query is that same value whatever k is.
C21_MrrWithoutCutoff ==
    /\ (op["c"] = "mrr" /\ pc["c"] = "done") =>
          /\ res["c"].kind = "return"
          /\ res["c"].ratio = ReciprocalRank
    /\ (op["c"] = "evaluate_single_query" /\ pc["c"] = "done") =>
          /\ res["c"].kind = "return"
          /\ res["c"].value.mrr = ReciprocalRank

\* a first hit beyond k: mrr 1/2 with an empty hits list
C21_Witness ==
    /\ op["c"] = "evaluate_single_query"
    /\ pc["c"] = "done"
    /\ arg["c"].retrieved = <<"a", "b">>
    /\ arg["c"].expected = <<"b">>
    /\ arg["c"].k = 1
    /\ res["c"].value.mrr = <<1, 2>>
    /\ res["c"].value.hits = <<>>

Aggregated == op["c"] = "aggregate_metrics" /\ pc["c"] = "done"

\* avg is the unweighted mean of the quotients values[1..n]: n * avg is
\* their sum, taken over the common denominator
CommonDenominator(values) ==
    LET prod[i \in 0..Len(values)] ==
            IF i = 0 THEN 1 ELSE prod[i - 1] * values[i][2]
    IN  prod[Len(values)]

IsMeanOf(avg, values) ==
    LET n == Len(values)
        D == CommonDenominator(values)
        total[i \in 0..n] ==
            IF i = 0 THEN 0 ELSE total[i - 1] + values[i][1] * (D \div values[i][2])
    IN  n * avg[1] * D = total[n] * avg[2]

PerQuery(name) ==
    [i \in 1..Len(arg["c"].metrics_list) |-> arg["c"].metrics_list[i][name]]

\* C22: aggregate_metrics returns a dict without keys for an empty metrics
\* list; for n >= 1 metrics it returns num_queries = n and, for recall@k,
\* precision@k, mrr and f1@k, the unweighted arithmetic mean of the n values.
C22_AggregateIsMean ==
    Aggregated =>
        /\ res["c"].kind = "return"
        /\ arg["c"].metrics_list = <<>> => DOMAIN res["c"].value = {}
        /\ arg["c"].metrics_list # <<>> =>
              /\ res["c"].value.num_queries = Len(arg["c"].metrics_list)
              /\ IsMeanOf(res["c"].value.avg_recall_at_k, PerQuery("recall_at_k"))
              /\ IsMeanOf(res["c"].value.avg_precision_at_k, PerQuery("precision_at_k"))
              /\ IsMeanOf(res["c"].value.avg_mrr, PerQuery("mrr"))
              /\ IsMeanOf(res["c"].value.avg_f1_at_k, PerQuery("f1_at_k"))

\* two queries with different scores: recall 1/2 and 1 average to 3/4
C22_Witness ==
    /\ Aggregated
    /\ Len(arg["c"].metrics_list) = 2
    /\ arg["c"].metrics_list[1].recall_at_k = <<1, 2>>
    /\ arg["c"].metrics_list[2].recall_at_k = <<1, 1>>
    /\ SameFloat(res["c"].value.avg_recall_at_k, <<3, 4>>)
    /\ res["c"].value.num_queries = 2

\* the empty list has been aggregated
C22_EmptyAggregated ==
    /\ Aggregated
    /\ arg["c"].metrics_list = <<>>
    /\ DOMAIN res["c"].value = {}

\* ---------------------------------------------------- traversal claims
\* every function and class definition of a tree, wherever it is, with the
\* row its statement starts at (its first decorator's, if decorated), whether
\* it lies in the body of a function, whether it is a statement of a class
\* body itself, and the class whose body it was reached from without
\* crossing another definition (None if there is none)
RECURSIVE DefsIn(_, _)
DefsIn(stmts, ctx) ==
    IF stmts = <<>> THEN {}
    ELSE LET stmt == Head(stmts)
             inner == DefinitionIn(stmt)
             here == [row |-> stmt.start, name |-> GetName(inner),
                      type |-> inner.type, in_function |-> ctx.in_function,
                      direct |-> ctx.direct, class |-> ctx.class]
             this ==
               CASE inner.type = "function_definition" ->
                      {here} \cup DefsIn(BodyOf(inner),
                                         [in_function |-> TRUE, direct |-> FALSE,
                                          class |-> None])
                 [] inner.type = "class_definition" ->
                      {here} \cup DefsIn(BodyOf(inner),
                                         [in_function |-> ctx.in_function,
                                          direct |-> TRUE, class |-> GetName(inner)])
                 [] OTHER -> DefsIn(stmt.children, [ctx EXCEPT !.direct = FALSE])
         IN  this \cup DefsIn(Tail(stmts), ctx)

DefsOf(f) ==
    DefsIn(f.tree.children, [in_function |-> FALSE, direct |-> FALSE, class |-> None])

\* the definition of f that a unit of f was made from
DefOfUnit(f, u) == CHOOSE d \in DefsOf(f) : d.row + 1 = u.start_line

HasDef(f, u) == \E d \in DefsOf(f) : d.row + 1 = u.start_line

\* C23 as stated: a unit is a method only when its function definition is a
\* statement of a class body itself (decorated or not).
C23_MethodOnlyDirectlyInClassBody ==
    \A f \in Processed : \A k \in 1..Len(UnitsOf(f)) :
        LET u == UnitsOf(f)[k]
        IN  u.chunk_type = "method" =>
                /\ HasDef(f, u)
                /\ DefOfUnit(f, u).type = "function_definition"
                /\ DefOfUnit(f, u).direct

\* C23: a unit is a method exactly when it was made from a function
\* definition (decorated or not) that is reached from the body of a class
\* without crossing another definition, be it a statement of the class body
\* or nested in if/try/with blocks of it; its parent_class is that class.  No
\* definition in the body of a function is yielded as a method.
C23_MethodIffReachedFromClassBody ==
    \A f \in Processed :
        /\ \A k \in 1..Len(UnitsOf(f)) :
              LET u == UnitsOf(f)[k]
              IN  /\ HasDef(f, u)
                  /\ u.name = DefOfUnit(f, u).name
                  /\ (u.chunk_type = "method") <=>
                        (/\ DefOfUnit(f, u).type = "function_definition"
                         /\ DefOfUnit(f, u).class # None)
                  /\ u.chunk_type = "method" =>
                        /\ u.parent_class = DefOfUnit(f, u).class
                        /\ ~ DefOfUnit(f, u).in_function
        /\ \A d \in DefsOf(f) : d.in_function =>
              \A k \in 1..Len(UnitsOf(f)) :
                  UnitsOf(f)[k].start_line = d.row + 1 =>
                      UnitsOf(f)[k].chunk_type # "method"

\* hooks.py has been chunked: trace, defined under an if of the body of
\* Hooks, is a method of Hooks, and so is run, a statement of that body
C23_Witness ==
    /\ ChunkerRuns
    /\ HooksPy \in Processed
    /\ \E k \in 1..Len(Out) :
         /\ Out[k].name = "trace"
         /\ Out[k].chunk_type = "method"
         /\ Out[k].parent_class = "Hooks"
         /\ ~ DefOfUnit(HooksPy, Out[k]).direct
    /\ \E k \in 1..Len(Out) :
         /\ Out[k].name = "run"
         /\ Out[k].chunk_type = "method"
         /\ DefOfUnit(HooksPy, Out[k]).direct

\* C24: no unit is yielded for a function or class definition that lies in
\* the body of a function or method, decorated or not, at any depth; every
\* other definition, also one nested in if/try blocks at module or class
\* level, gives exactly one unit, and there are no further units.
C24_NoDescentIntoFunctionBodies ==
    \A f \in Processed :
        /\ \A d \in DefsOf(f) :
              /\ d.in_function => UnitsStartingAt(f, d.row) = {}
              /\ ~ d.in_function =>
                    /\ Cardinality(UnitsStartingAt(f, d.row)) = 1
                    /\ \A k \in UnitsStartingAt(f, d.row) :
                          UnitsOf(f)[k].name = d.name
        /\ Len(UnitsOf(f)) = Cardinality({d \in DefsOf(f) : ~ d.in_function})

\* hooks.py has been chunked: five of its definitions lie in function
\* bodies, the other eight gave its eight units, guarded and Guard.check
\* from under the try among them
C24_Witness ==
    /\ ChunkerRuns
    /\ HooksPy \in Processed
    /\ Cardinality({d \in DefsOf(HooksPy) : d.in_function}) = 5
    /\ Len(UnitsOf(HooksPy)) = 8
    /\ \E k \in 1..Len(Out) : Out[k].name = "guarded" /\ Out[k].chunk_type = "function"
    /\ \E k \in 1..Len(Out) : Out[k].name = "check" /\ Out[k].parent_class = "Guard"
    /\ \A k \in 1..Len(Out) : Out[k].name \notin {"inner", "Local", "m", "deep", "hidden"}

\* ------------------------------------------------------ build order claims
\* the k-th of these records (or rows) was made from the k-th unit with the
\* answer to the k-th embedding call, which was sent that unit's search text
InUnitOrder(records, units) ==
    /\ Len(records) <= Len(units)
    /\ \A k \in 1..Len(records) :
          /\ records[k].id = units[k].id
          /\ records[k].search_text = CreateSearchText(units[k])
          /\ records[k].vector = Embed(records[k].search_text, k)

\* the caller's build has replaced the table and not yet returned
TableReplaced ==
    pc["c"] \in {"create_fts", "wait", "save_meta", "write_meta", "ic_ret"}

\* the caller's build has returned the number of records it wrote
BuildReturned ==
    /\ pc["c"] = "done"
    /\ res["c"].kind = "return"
    /\ res["c"].n > 0

\* C25: index_chunks makes one embedding call per unit, in the order of the
\* list, and all of them before it replaces the table: the i-th record, and
\* the i-th row of the table once it is replaced, carries the i-th unit's id,
\* the search text made from that unit and the vector the i-th call returned
\* for that text.
C25_EmbedInOrderBeforeReplace ==
    /\ [](CallerBuilds =>
            /\ pc["c"] \in {"embed", "create_table"} =>
                  /\ InUnitOrder(loc.records, arg["c"].units)
                  /\ calls.embed = Len(loc.records)
                  /\ pc["c"] = "create_table" =>
                        Len(loc.records) = Len(arg["c"].units)
            /\ (TableReplaced \/ BuildReturned) =>
                  /\ Len(tbl.rows) = Len(arg["c"].units)
                  /\ InUnitOrder(tbl.rows, arg["c"].units)
                  /\ calls.embed = Len(arg["c"].units))
    /\ [][/\ calls'.embed > calls.embed =>
                /\ pc["c"] = "embed"
                /\ calls'.embed = calls.embed + 1
                /\ loc.i = calls'.embed
          /\ tbl'.rows # tbl.rows => calls.embed = Len(arg["c"].units)]_vars

\* a build of two different units has returned: the rows are in the units'
\* order, with the vectors of the first and the second call
C25_Witness ==
    /\ CallerBuilds
    /\ BuildReturned
    /\ res["c"].n = 2
    /\ arg["c"].units[1].id # arg["c"].units[2].id
    /\ tbl.rows[1].id = arg["c"].units[1].id
    /\ tbl.rows[2].id = arg["c"].units[2].id
    /\ tbl.rows[1].vector.call = 1
    /\ tbl.rows[2].vector = Embed(CreateSearchText(arg["c"].units[2]), 2)
    /\ calls.embed = 2

\* ------------------------------------------------------------ HyDE claims
HasFence(text) == \E k \in 1..Len(text) : text[k] = Fence

\* the snippet of a generated text without its fence markup: the code
\* between the first fence and the next one (or the end), less the language
\* tag that follows the opening fence; the whole text when it has no fence
Snippet(text) ==
    IF ~HasFence(text) THEN Strip(text)
    ELSE LET inside == Before(After(text, Fence), Fence)
         IN  Strip(IF StartsWith(inside, "python") THEN Tail(inside) ELSE inside)

\* hyde_search has handed its string to the store's search
HydeSearches ==
    /\ op["c"] = "strategy"
    /\ loc.strat = "hyde"
    /\ pc["c"] \in {"s_table", "s_query"}

\* C26: the string hyde_search hands to the store's search is the generated
\* snippet without any fence markup (fence markers, language tag), its own
\* content unchanged, wherever the fence is in the generated text; the
\* original query is no part of it.
C26_HydeSearchesBareSnippet ==
    HydeSearches =>
        /\ loc.sq = Snippet(loc.generated)
        /\ ~HasFence(loc.sq)

\* ----------------------------------------------------- build failure claims
\* the caller's build has ended with the embedding failure
BuildFailed ==
    /\ CallerBuilds
    /\ pc["c"] = "done"
    /\ res["c"] = Raised("EmbedError")

\* the caller's build has not yet come to create_table
BeforeReplace == pc["c"] \in {"ir_chunk", "ic_entry", "embed", "create_table"}

\* C27: an embedding call that fails during index_chunks ends the call with
\* that failure at once: the step of the failed call raises, no further
\* embedding call is made (each unit is tried once at most), and no step of
\* the call, from its start to the failure, changes the table or the
\* metadata record, which are as they were before the call.
C27_EmbedFailureLeavesIndex ==
    /\ [](BuildFailed =>
            /\ calls.embed >= 1
            /\ calls.embed <= Len(arg["c"].units)
            /\ loc.records = <<>>)
    /\ [][/\ (CallerBuilds' /\ BeforeReplace') => (tbl' = tbl /\ meta' = meta)
          /\ (pc["c"] = "embed" /\ calls'.embed # calls.embed
                /\ Len(loc'.records) # Len(loc.records) + 1) =>
                (BuildFailed' /\ calls'.embed = loc.i)
          /\ (~BuildFailed /\ BuildFailed') =>
                /\ pc["c"] = "embed"
                /\ calls'.embed = calls.embed + 1
                /\ tbl' = tbl
                /\ meta' = meta]_vars

\* a rebuild of two units failed at its second embedding call: the table and
\* the metadata record of the earlier one-unit build are there
C27_Witness ==
    /\ BuildFailed
    /\ Len(arg["c"].units) = 2
    /\ calls.embed = 2
    /\ tbl.exists
    /\ Len(tbl.rows) = 1
    /\ meta.exists
    /\ meta.chunk_count = 1

\* C28: the metadata record is written last in a build, after the table is
\* replaced and its full-text index is seen listed, so in every state that
\* builds reach, failed and blocked ones included, a metadata record that is
\* there comes with a table that exists: get_stats reporting indexed
\* implies is_indexed() true on every process's store.
C28_MetadataImpliesTable ==
    /\ meta.exists => tbl.exists
    /\ \A p \in Procs :
          GetStats(meta).status = "indexed" =>
              IsIndexed(TableProperty(cache[p], tbl).handle)
    /\ pc["c"] \in {"save_meta", "write_meta", "ic_ret"} => (tbl.exists /\ Listed)
    /\ pc["c"] \in {"create_fts", "wait", "save_meta"} =>
          (meta.exists => (meta.written /\ meta.build # loc.build))
    /\ pc["c"] = "write_meta" <=> (meta.exists /\ ~meta.written)
    /\ (pc["c"] = "ic_ret" \/ (CallerBuilds /\ BuildReturned)) =>
          (meta.exists /\ meta.written /\ meta.build = loc.build
             /\ meta.chunk_count = Len(arg["c"].units))

\* a rebuild has failed at an embedding call after a build that completed:
\* the reader's get_stats() has answered indexed, and the table is there
C28_Witness ==
    /\ BuildFailed
    /\ meta.exists
    /\ tbl.exists
    /\ op["r"] = "get_stats"
    /\ pc["r"] = "done"
    /\ res["r"].tag = "indexed"

\* the converse fails: a build blocked waiting for the index has left a
\* table without a metadata record, and the reader's get_stats() has
\* answered not_indexed
C28_TableWithoutMetadata ==
    /\ pc["c"] = "wait"
    /\ tbl.exists
    /\ ~meta.exists
    /\ op["r"] = "get_stats"
    /\ pc["r"] = "done"
    /\ res["r"].tag = "not_indexed"

\* ------------------------------------------------------------ answer claims
Answering == op["c"] = "answer_question"

\* the generate() calls the strategy that ran has made
StrategyGenerations == IF loc.strat \in GeneratingStrategies THEN 1 ELSE 0

\* C29: answer_question on a repository that is not indexed returns the
\* fixed not-indexed message with no strategy run and no generate() call;
\* when the strategy returns no result it returns the fixed no-relevant-code
\* message without the answer-generation call (the only generate() call is
\* the strategy's own, if it makes one); the answer-generation call is made
\* only with a non-empty result list in hand.
C29_AnswerShortCircuits ==
    Answering =>
        /\ (pc["c"] = "done" /\ res["c"].tag = "repository_not_indexed") =>
              /\ res["c"].kind = "return"
              /\ loc.strat = "none"
              /\ calls = NoCalls
        /\ (pc["c"] = "done" /\ res["c"].tag = "no_relevant_code") =>
              /\ res["c"].kind = "return"
              /\ loc.strat # "none"
              /\ calls.gen = StrategyGenerations
        /\ pc["c"] = "aq_generate" =>
              /\ res["c"].kind = "return"
              /\ res["c"].tag = "list"
              /\ res["c"].n > 0
              /\ calls.gen = StrategyGenerations
        /\ (pc["c"] = "done" /\ res["c"].tag = "answer") =>
              /\ res["c"].n > 0
              /\ calls.gen = StrategyGenerations + 1
        /\ pc["c"] \in {"aq_entry", "st_begin", "st_generate"} => calls.gen = 0

\* HyDE found nothing on an indexed repository: the fixed message, after the
\* strategy's one generate() call and the store's search
C29_Witness ==
    /\ Answering
    /\ pc["c"] = "done"
    /\ res["c"] = Returned("no_relevant_code", 0)
    /\ loc.strat = "hyde"
    /\ calls.gen = 1
    /\ calls.search = 1
    /\ tbl.exists

\* the not-indexed message has been returned
C29_NotIndexedAnswered ==
    /\ Answering
    /\ pc["c"] = "done"
    /\ res["c"] = Returned("repository_not_indexed", 0)
    /\ ~tbl.exists

\* an answer has been generated from retrieved results
C29_Answered ==
    /\ Answering
    /\ pc["c"] = "done"
    /\ res["c"].tag = "answer"
    /\ calls.gen = 2

\* ---------------------------------------------------- strategy order claims
\* a strategy runs on a repository with no table
StrategyOnNoTable == op["c"] = "strategy" /\ ~tbl.exists

\* the strategies whose first external call is generate()
AskFirst == {"hyde", "query_expansion", "query_expansion_context",
             "context_v1", "context_v2", "context_v3"}

\* C30 as stated: on a repository with no table no strategy calls the
\* generation service or the embedding service before the not-indexed error.
C30_NoExternalCallBeforeError ==
    StrategyOnNoTable => (calls.gen = 0 /\ calls.embed = 0)

\* C30: on a repository with no table no strategy calls the embedding
\* service or the store's search; baseline and the keyword expansion (v4)
\* reach search_code's check, and its not-indexed error, with no external
\* call, while HyDE, query expansion and the context-aware expansions have
\* called generate() once by the time search_code makes the check.  Those
\* end with the not-indexed error when generate() answered, and with the
\* failure of generate(), search_code not reached, when it did not.
C30_OnlyGenerationBeforeError ==
    StrategyOnNoTable =>
        /\ calls.embed = 0
        /\ calls.search = 0
        /\ pc["c"] \in {"st_begin", "st_generate"} => calls.gen = 0
        /\ pc["c"] \in {"sc_check", "done"} =>
              calls.gen = IF loc.strat \in AskFirst THEN 1 ELSE 0
        /\ pc["c"] = "sc_check" => res["c"].kind # "raise"
        /\ pc["c"] = "done" =>
              IF loc.strat \in AskFirst
              THEN res["c"] \in {Raised("ValueError"), GenerateFailed}
              ELSE res["c"] = Raised("ValueError")

\* context-aware query expansion has ended with the not-indexed error after
\* its generate() call
C30_Witness ==
    /\ StrategyOnNoTable
    /\ pc["c"] = "done"
    /\ loc.strat = "query_expansion_context"
    /\ res["c"] = Raised("ValueError")
    /\ calls.gen = 1
    /\ calls.embed = 0

\* HyDE has ended with the failure of its generate() call; search_code was
\* not reached
C30_GenerationFailedFirst ==
    /\ StrategyOnNoTable
    /\ pc["c"] = "done"
    /\ loc.strat = "hyde"
    /\ res["c"] = GenerateFailed
    /\ calls.gen = 1

\* baseline has ended with the not-indexed error and no external call
C30_BaselineChecksFirst ==
    /\ StrategyOnNoTable
    /\ pc["c"] = "done"
    /\ loc.strat = "baseline"
    /\ res["c"] = Raised("ValueError")
    /\ calls = NoCalls

====
